---- MODULE Spec2Model ----
(***************************************************************************)
(* Model of email-domain-validator.py: the DomainValidator class.          *)
(*                                                                         *)
(* A Python str is a sequence of pieces.  Text that the code inspects      *)
(* (domains, MX hosts, TXT records, URLs, page text) is a sequence of      *)
(* one-character strings, so that regular-expression matching, strip(),    *)
(* lower(), split(), join() and the `in` substring test are computed       *)
(* character by character.  A string literal that the code only emits (a   *)
(* reason, a status) is one piece; an f-string is the concatenation of its *)
(* literal pieces and the texts it formats.                                *)
(***************************************************************************)
EXTENDS Integers, Sequences, FiniteSets, TLC

(***************************************************************************)
(* Bounds of the model.                                                    *)
(***************************************************************************)
\* longest string handed to check_domain_validity
MaxLen == 5
\* most MX records in one DNS answer
MaxMx == 2
\* most lines in the input file
MaxLines == 2
\* largest worker pool (max_workers ranges over 1..MaxWorkers)
MaxWorkers == 2

(***************************************************************************)
(* The state: the call of check_domain_validity under way (run), the call  *)
(* of process_domain_list under way (file .. report), and, for calls of    *)
(* check_domain_validity that follow one another in a network that does    *)
(* not change, what the network has answered so far (network) and the      *)
(* calls that have returned (previous).  Each is described where it is     *)
(* first used.                                                             *)
(***************************************************************************)
VARIABLES run, file, max_workers, bpc, domains, futures, results, detailed_results,
          collected, summary, report, network, previous

(***************************************************************************)
(* Python string operations.                                               *)
(***************************************************************************)
Letters == {"a","b","c","d","e","f","g","h","i","j","k","l","m",
            "n","o","p","q","r","s","t","u","v","w","x","y","z"}
UpperCase == <<"A","B","C","D","E","F","G","H","I","J","K","L","M",
               "N","O","P","Q","R","S","T","U","V","W","X","Y","Z">>
LowerCase == <<"a","b","c","d","e","f","g","h","i","j","k","l","m",
               "n","o","p","q","r","s","t","u","v","w","x","y","z">>
Capitals == {UpperCase[i] : i \in 1..26}
Digits == {"0","1","2","3","4","5","6","7","8","9"}
\* str.strip() with no argument removes these from both ends
Whitespace == {" ", "\t", "\n", "\r", "\f"}

lower_char(c) ==
    IF c \in Capitals THEN LowerCase[CHOOSE i \in 1..26 : UpperCase[i] = c] ELSE c

\* str.lower()
RECURSIVE lower(_)
lower(s) == IF s = <<>> THEN <<>> ELSE <<lower_char(Head(s))>> \o lower(Tail(s))

RECURSIVE lstrip(_)
lstrip(s) == IF s # <<>> /\ Head(s) \in Whitespace THEN lstrip(Tail(s)) ELSE s

RECURSIVE rstrip(_)
rstrip(s) ==
    IF s # <<>> /\ s[Len(s)] \in Whitespace THEN rstrip(SubSeq(s, 1, Len(s) - 1)) ELSE s

\* str.strip()
strip(s) == rstrip(lstrip(s))

\* `pat in s` for two strings
contains(pat, s) ==
    \E i \in 1..(Len(s) - Len(pat) + 1) : SubSeq(s, i, i + Len(pat) - 1) = pat

\* s.count(c) for a one-character c
count(s, c) == Cardinality({i \in 1..Len(s) : s[i] = c})

\* s.split(c) for a one-character c: the list of the parts of s between the c's
RECURSIVE split(_, _)
split(s, c) ==
    IF \A i \in 1..Len(s) : s[i] # c
    THEN <<s>>
    ELSE LET k == CHOOSE i \in 1..Len(s) :
                      s[i] = c /\ \A j \in 1..(i - 1) : s[j] # c
         IN  <<SubSeq(s, 1, k - 1)>> \o split(SubSeq(s, k + 1, Len(s)), c)

\* c.join(parts)
RECURSIVE join(_, _)
join(parts, c) ==
    IF parts = <<>> THEN <<>>
    ELSE IF Len(parts) = 1 THEN parts[1]
    ELSE parts[1] \o <<c>> \o join(Tail(parts), c)

\* parts[-2:]
last_two(parts) ==
    IF Len(parts) <= 2 THEN parts ELSE SubSeq(parts, Len(parts) - 1, Len(parts))

\* str(n) of a status code or a count
str(n) == <<ToString(n)>>

(***************************************************************************)
(* The format check of check_domain_validity: re.match of the pattern      *)
(* below, run as the automaton of the pattern.  q0: at the start; q1:      *)
(* inside the first label; q2: just after a "."; q3: inside a later label  *)
(* (the only state in which the group has matched at least once).  Without *)
(* re.MULTILINE, Python's $ matches at the end of the string and also just *)
(* before a newline that is the last character of the string.              *)
(***************************************************************************)
\* r"^[a-zA-Z0-9][-a-zA-Z0-9]*(\.[a-zA-Z0-9][-a-zA-Z0-9]*)+$"
Alnum == Letters \cup Capitals \cup Digits
AlnumHyphen == Alnum \cup {"-"}

re_step(q, c) ==
    CASE q = "q0" /\ c \in Alnum       -> "q1"
      [] q = "q1" /\ c \in AlnumHyphen -> "q1"
      [] q = "q1" /\ c = "."           -> "q2"
      [] q = "q2" /\ c \in Alnum       -> "q3"
      [] q = "q3" /\ c \in AlnumHyphen -> "q3"
      [] q = "q3" /\ c = "."           -> "q2"
      [] OTHER                         -> "fail"

RECURSIVE re_run(_, _)
re_run(q, s) == IF s = <<>> THEN q ELSE re_run(re_step(q, Head(s)), Tail(s))

\* the positions at which $ matches in s (as the number of characters before it)
re_dollar(s) ==
    {Len(s)} \cup (IF s # <<>> /\ s[Len(s)] = "\n" THEN {Len(s) - 1} ELSE {})

re_match_domain(s) == \E n \in re_dollar(s) : re_run("q0", SubSeq(s, 1, n)) = "q3"

(***************************************************************************)
(* Configuration data of the validator.                                    *)
(***************************************************************************)
\* self.PARKING_KEYWORDS, in list order ("coming soon" is listed twice)
PARKING_KEYWORDS ==
    << <<"d","o","m","a","i","n"," ","i","s"," ","f","o","r"," ","s","a","l","e">>,
       <<"b","u","y"," ","t","h","i","s"," ","d","o","m","a","i","n">>,
       <<"d","o","m","a","i","n"," ","p","a","r","k","i","n","g">>,
       <<"p","a","r","k","e","d"," ","d","o","m","a","i","n">>,
       <<"d","o","m","a","i","n"," ","m","a","y"," ","b","e"," ","f","o","r"," ","s","a","l","e">>,
       <<"d","o","m","a","i","n"," ","a","u","c","t","i","o","n">>,
       <<"t","h","i","s"," ","w","e","b"," ","p","a","g","e"," ","i","s"," ","p","a","r","k","e","d">>,
       <<"t","h","i","s"," ","d","o","m","a","i","n"," ","i","s"," ","p","a","r","k","e","d">>,
       <<"p","u","r","c","h","a","s","e"," ","t","h","i","s"," ","d","o","m","a","i","n">>,
       <<"i","n","q","u","i","r","e"," ","a","b","o","u","t"," ","t","h","i","s"," ","d","o","m","a","i","n">>,
       <<"d","o","m","a","i","n"," ","b","r","o","k","e","r">>,
       <<"d","o","m","a","i","n"," ","f","o","r"," ","p","u","r","c","h","a","s","e">>,
       <<"c","o","m","i","n","g"," ","s","o","o","n">>,
       <<"r","e","g","i","s","t","e","r",".","c","o","m">>,
       <<"d","o","m","a","i","n"," ","r","e","g","i","s","t","r","a","t","i","o","n">>,
       <<"r","e","l","a","t","e","d"," ","s","e","a","r","c","h","e","s">>,
       <<"w","h","o","i","s"," ","l","o","o","k","u","p">>,
       <<"d","o","m","a","i","n"," ","n","a","m","e">>,
       <<"t","h","i","s"," ","d","o","m","a","i","n"," ","i","s"," ","a","v","a","i","l","a","b","l","e">>,
       <<"p","e","n","d","i","n","g"," ","r","e","n","e","w","a","l"," ","o","r"," ","d","e","l","e","t","i","o","n">>,
       <<"u","n","d","e","r"," ","c","o","n","s","t","r","u","c","t","i","o","n">>,
       <<"p","a","g","e"," ","i","s"," ","u","n","d","e","r"," ","c","o","n","s","t","r","u","c","t","i","o","n">>,
       <<"c","o","m","i","n","g"," ","s","o","o","n">>,
       <<"n","e","t","w","o","r","k","s","o","l","u","t","i","o","n","s">>,
       <<"t","h","i","s"," ","p","a","g","e"," ","i","s"," ","u","n","d","e","r"," ","c","o","n","s","t","r","u","c","t","i","o","n">>,
       <<"d","i","g","i","-","s","e","a","r","c","h","e","s">>,
       <<"w","h","y"," ","a","m"," ","i"," ","s","e","e","i","n","g"," ","t","h","i","s">>,
       <<"t","r","a","d","e","m","a","r","k"," ","f","r","e","e"," ","n","o","t","i","c","e">> >>

\* PARKING_MX_PATTERNS of check_domain_validity, in list order
PARKING_MX_PATTERNS ==
    << <<"p","a","r","k","-","m","x",".","a","b","o","v","e",".","c","o","m">>,
       <<"s","e","d","o","p","a","r","k","i","n","g",".","c","o","m">>,
       <<"h","-","e","m","a","i","l",".","n","e","t">>,
       <<"p","a","r","k","i","n","g","c","r","e","w",".","n","e","t">>,
       <<"b","o","d","i","s",".","c","o","m","/","p","a","r","k","i","n","g">>,
       <<"f","a","b","u","l","o","u","s",".","c","o","m","/","p","a","r","k">> >>

\* parking_services of check_if_parked, in list order
parking_services ==
    << <<"s","e","d","o","p","a","r","k","i","n","g",".","c","o","m">>,
       <<"h","u","g","e","d","o","m","a","i","n","s",".","c","o","m","/","d","o","m","a","i","n","_","p","r","o","f","i","l","e">>,
       <<"g","o","d","a","d","d","y","p","a","r","k","i","n","g",".","c","o","m">>,
       <<"p","a","r","k","i","n","g","c","r","e","w",".","n","e","t">>,
       <<"p","a","r","k","l","o","g","i","c",".","c","o","m">>,
       <<"f","a","b","u","l","o","u","s",".","c","o","m","/","p","a","r","k">>,
       <<"b","o","d","i","s",".","c","o","m","/","p","a","r","k","i","n","g">>,
       <<"r","e","g","i","s","t","e","r",".","c","o","m","/","d","o","m","a","i","n">>,
       <<"r","e","g","i","s","t","r","a","r",".","g","o","d","a","d","d","y",".","c","o","m">>,
       <<"n","e","t","w","o","r","k","s","o","l","u","t","i","o","n","s",".","c","o","m","/","m","a","n","a","g","e","-","i","t">>,
       <<"d","o","m","a","i","n","s","p","o","n","s","o","r">>,
       <<"d","o","m","a","i","n","c","o","n","t","r","o","l",".","c","o","m">>,
       <<"n","a","m","e","s","i","l","o",".","c","o","m","/","d","o","m","a","i","n">>,
       <<"n","a","m","e","d","r","i","v","e",".","c","o","m">>,
       <<"c","r","a","z","y","d","o","m","a","i","n","s",".","c","o","m">>,
       <<"b","u","y","d","o","m","a","i","n","s",".","c","o","m">>,
       <<"p","a","r","k","e","d",".","n","a","m","e","c","h","e","a","p",".","c","o","m">>,
       <<"i","2",".","c","d","n","-","i","m","a","g","e",".","c","o","m">>,
       <<"d","i","g","i","-","s","e","a","r","c","h","e","s",".","c","o","m">>,
       <<"c","d","n","-","i","m","a","g","e",".","c","o","m">>,
       <<"c","d","n",".","c","o","n","s","e","n","t","m","a","n","a","g","e","r",".","n","e","t">>,
       <<"d","e","l","i","v","e","r","y",".","c","o","n","s","e","n","t","m","a","n","a","g","e","r",".","n","e","t">> >>

\* response.status_code < 400 is the test for a usable response
HTTP_ERROR == 400
\* parking_phrase_count >= 3
MIN_PARKING_PHRASES == 3

(***************************************************************************)
(* The parking detector, check_if_parked(domain, response).                *)
(*                                                                         *)
(* A response carries its status code and the page that was fetched.  A    *)
(* page is what the code reads of it: the final URL, and what              *)
(* BeautifulSoup reports of the body (or the exception BeautifulSoup       *)
(* raises):                                                                *)
(*   url          response.url                                             *)
(*   parse_error  <<>>, or <<e>> when parsing response.text raises e       *)
(*   has_title    soup.title is not None                                   *)
(*   title        soup.title.text                                          *)
(*   text         soup.get_text()                                          *)
(*   markup       str(soup)                                                *)
(*   anchors      len(soup.find_all('a'))                                  *)
(*   img_cdn      an <img> whose src contains cdn-image.com exists         *)
(*   a_digi       an <a> whose href contains digi-searches.com exists      *)
(*   a_whois      an <a> whose string matches Whois\s+Lookup (re.I) exists  *)
(***************************************************************************)
\* the entries of PARKING_KEYWORDS, lower-cased, that occur in txt, in list order
keywords_in(txt) ==
    SelectSeq(PARKING_KEYWORDS, LAMBDA keyword : contains(lower(keyword), txt))

\* network_solutions_indicators
network_solutions_indicators(page, body_text) ==
    << contains(<<"r","e","l","a","t","e","d"," ","s","e","a","r","c","h","e","s">>, body_text) /\ contains(<<"u","n","d","e","r"," ","c","o","n","s","t","r","u","c","t","i","o","n">>, body_text),
       contains(<<"p","a","g","e"," ","i","s"," ","u","n","d","e","r"," ","c","o","n","s","t","r","u","c","t","i","o","n">>, body_text) /\ page.anchors > 5,
       contains(<<"t","h","i","s"," ","d","o","m","a","i","n">>, body_text) /\ contains(<<"u","n","d","e","r"," ","c","o","n","s","t","r","u","c","t","i","o","n">>, body_text),
       contains(<<"c","d","n","-","i","m","a","g","e",".","c","o","m">>, page.markup) \/ contains(<<"d","i","g","i","-","s","e","a","r","c","h","e","s",".","c","o","m">>, page.markup),
       contains(<<"n","e","t","w","o","r","k","s","o","l","u","t","i","o","n","s",".","c","o","m">>, page.markup)
           /\ contains(<<"u","n","d","e","r"," ","c","o","n","s","t","r","u","c","t","i","o","n">>, body_text),
       contains(<<"t","r","a","d","e","m","a","r","k"," ","f","r","e","e"," ","n","o","t","i","c","e">>, lower(body_text)),
       page.img_cdn,
       page.a_digi,
       contains(<<"t","r","a","d","e","m","a","r","k">>, body_text) /\ contains(<<"n","o","t","i","c","e">>, body_text)
           /\ contains(<<"n","e","t","w","o","r","k","s","o","l","u","t","i","o","n","s">>, lower(page.markup)),
       contains(<<"w","h","y"," ","a","m"," ","i"," ","s","e","e","i","n","g"," ","t","h","i","s">>, lower(body_text))
           /\ contains(<<"u","n","d","e","r"," ","c","o","n","s","t","r","u","c","t","i","o","n">>, lower(body_text)) >>

\* parking_indicators
parking_indicators(page, title, body_text) ==
    << contains(<<"c","o","m","i","n","g"," ","s","o","o","n">>, body_text) /\ contains(<<"r","e","g","i","s","t","e","r">>, body_text)
           /\ contains(<<"d","o","m","a","i","n">>, body_text),
       contains(<<"r","e","l","a","t","e","d"," ","s","e","a","r","c","h","e","s">>, body_text) /\ page.anchors > 10,
       contains(<<"d","o","m","a","i","n">>, lower(title)) /\ contains(<<"r","e","g","i","s","t","e","r">>, body_text)
           /\ (contains(<<"f","o","r"," ","s","a","l","e">>, body_text) \/ contains(<<"p","a","r","k","e","d">>, body_text)),
       contains(<<"w","h","o","i","s"," ","l","o","o","k","u","p">>, body_text) /\ contains(<<"d","o","m","a","i","n"," ","r","e","g","i","s","t","r","a","t","i","o","n">>, body_text),
       contains(<<"c","o","p","y","r","i","g","h","t">>, body_text) /\ contains(<<"r","e","g","i","s","t","e","r",".","c","o","m">>, body_text),
       Len(strip(body_text)) < 300 /\ page.anchors > 15 /\ contains(<<"d","o","m","a","i","n">>, body_text),
       contains(<<"c","o","m","i","n","g"," ","s","o","o","n">>, lower(title)) /\ contains(<<"d","o","m","a","i","n">>, lower(title)),
       contains(<<"p","a","r","k","e","d">>, lower(title)),
       page.a_whois /\ Len(strip(body_text)) < 800 >>

any(flags) == \E i \in 1..Len(flags) : flags[i]

\* a variant of check_content that counts the keywords of the body before it looks
\* at the title
check_content_body_first(page) ==
    LET title == IF page.has_title THEN lower(page.title) ELSE <<>>
        in_title == keywords_in(title)
        body_text == lower(page.text)
        parking_phrase_count == Len(keywords_in(body_text))
    IN  IF parking_phrase_count >= MIN_PARKING_PHRASES
        THEN <<TRUE, <<"Contains multiple parking keywords (">>
                         \o str(parking_phrase_count) \o <<")">> >>
        ELSE IF in_title # <<>>
        THEN <<TRUE, <<"Contains parking keyword in title: '">> \o in_title[1] \o <<"'">> >>
        ELSE IF any(network_solutions_indicators(page, body_text))
        THEN <<TRUE, <<"Detected Network Solutions 'Under Construction' page">> >>
        ELSE IF any(parking_indicators(page, title, body_text))
        THEN <<TRUE, <<"Detected parking page pattern">> >>
        ELSE <<>>

\* the content checks, inside the inner try: <<is_parked, reason>>, or <<>> when the
\* checks end without a return
check_content(page) ==
    LET title == IF page.has_title THEN lower(page.title) ELSE <<>>
        in_title == keywords_in(title)
        body_text == lower(page.text)
        parking_phrase_count == Len(keywords_in(body_text))
    IN  IF in_title # <<>>
        THEN <<TRUE, <<"Contains parking keyword in title: '">> \o in_title[1] \o <<"'">> >>
        ELSE IF parking_phrase_count >= MIN_PARKING_PHRASES
        THEN <<TRUE, <<"Contains multiple parking keywords (">>
                         \o str(parking_phrase_count) \o <<")">> >>
        ELSE IF any(network_solutions_indicators(page, body_text))
        THEN <<TRUE, <<"Detected Network Solutions 'Under Construction' page">> >>
        ELSE IF any(parking_indicators(page, title, body_text))
        THEN <<TRUE, <<"Detected parking page pattern">> >>
        ELSE <<>>

\* a variant of check_if_parked that takes a body it cannot parse for a parked page
check_if_parked_unparsable_is_parked(domain, response) ==
    LET page == response.page
    IN  IF \E i \in 1..Len(parking_services) : contains(parking_services[i], lower(page.url))
        THEN <<TRUE, <<"Redirects to parking service">> >>
        ELSE IF page.parse_error # <<>>
        THEN <<TRUE, <<"Could not parse HTML content: ">> \o page.parse_error[1]>>
        ELSE IF check_content(page) # <<>>
        THEN check_content(page)
        ELSE <<FALSE, <<"Not parked">> >>

\* check_if_parked(domain, response) for a response that is given: <<is_parked, reason>>.
\* (A requests.Response is false when its status is an error status; the code calls
\* check_if_parked only with a status below 400, so the branch that fetches the page
\* again is never taken.)
check_if_parked(domain, response) ==
    LET page == response.page
    IN  IF \E i \in 1..Len(parking_services) : contains(parking_services[i], lower(page.url))
        THEN <<TRUE, <<"Redirects to parking service">> >>
        ELSE IF page.parse_error # <<>>
        THEN <<FALSE, <<"Could not parse HTML content: ">> \o page.parse_error[1]>>
        ELSE IF check_content(page) # <<>>
        THEN check_content(page)
        ELSE <<FALSE, <<"Not parked">> >>

(***************************************************************************)
(* The network, as the code sees it.  Every DNS query, HTTP request and    *)
(* socket connect is a step whose outcome the environment chooses: an      *)
(* answer, a failure of the kind the code catches at the call, or an       *)
(* exception of another kind (a fault), which only the `except Exception`  *)
(* of check_domain_validity catches.                                       *)
(***************************************************************************)
\* str(e) of a fault
FaultMsgs == { <<"timed out">>, <<"label too long">> }

\* record.exchange.to_text() of the MX records a resolver may return
MxHosts == { <<"m","a","i","l",".","a",".","a",".">>, <<"M","X","1",".","S","e","d","o","P","a","r","k","i","n","g",".","c","o","m",".">>, <<"m","x",".","h","-","e","m","a","i","l",".","n","e","t",".">> }
MxAnswers == UNION { [1..n -> MxHosts] : n \in 1..MaxMx }

\* the A records of an answer
AAnswers == { <<<<"1","9","2",".","0",".","2",".","1">>>> }

\* record.to_text() of TXT records
SpfTxt == <<"\"","v","=","s","p","f","1"," ","-","a","l","l","\"">>
DmarcTxt == <<"\"","v","=","D","M","A","R","C","1",";"," ","p","=","n","o","n","e","\"">>
OtherTxt == <<"\"","h","e","l","l","o","\"">>
TxtAnswers == { <<OtherTxt>>, <<SpfTxt>>, <<SpfTxt, OtherTxt>> }
DmarcAnswers == { <<OtherTxt>>, <<DmarcTxt>> }

\* what dns.resolver.resolve does: it fails to resolve (NoAnswer, NXDOMAIN,
\* NoNameservers or another DNSException: "absent"), raises an exception of another
\* class ("fault"), or returns records
DnsOutcomes(answers) ==
    { [kind |-> "absent", records |-> <<>>, e |-> <<>>] }
    \cup { [kind |-> "fault", records |-> <<>>, e |-> m] : m \in FaultMsgs }
    \cup { [kind |-> "answer", records |-> a, e |-> <<>>] : a \in answers }

\* pages a web server may serve
NoParse == <<>>
PlainPage ==
    [url |-> <<"h","t","t","p","s",":","/","/","a",".","a","/">>, parse_error |-> NoParse, has_title |-> TRUE,
     title |-> <<"H","o","m","e">>, text |-> <<"H","o","m","e"," ","W","e","l","c","o","m","e"," ","t","o"," ","o","u","r"," ","s","h","o","p">>,
     markup |-> <<"<","t","i","t","l","e",">","H","o","m","e","<","/","t","i","t","l","e",">","<","p",">","W","e","l","c","o","m","e"," ","t","o"," ","o","u","r"," ","s","h","o","p","<","/","p",">">>,
     anchors |-> 0, img_cdn |-> FALSE, a_digi |-> FALSE, a_whois |-> FALSE]
\* redirected to a parking service
RedirectedPage == [PlainPage EXCEPT !.url = <<"h","t","t","p","s",":","/","/","w","w","w",".","S","e","d","o","P","a","r","k","i","n","g",".","c","o","m","/","a",".","a">>]
\* a parking keyword in the title
TitlePage ==
    [PlainPage EXCEPT !.title = <<"D","o","m","a","i","n"," ","P","a","r","k","i","n","g">>, !.text = <<"D","o","m","a","i","n"," ","P","a","r","k","i","n","g">>,
                      !.markup = <<"<","t","i","t","l","e",">","D","o","m","a","i","n"," ","P","a","r","k","i","n","g","<","/","t","i","t","l","e",">">>]
\* three different parking keywords in the body
KeywordsPage ==
    [PlainPage EXCEPT !.text = <<"H","o","m","e"," ","b","u","y"," ","t","h","i","s"," ","d","o","m","a","i","n"," ","f","r","o","m"," ","a"," ","d","o","m","a","i","n"," ","b","r","o","k","e","r"," ","a","t"," ","a"," ","d","o","m","a","i","n"," ","a","u","c","t","i","o","n">>,
                      !.markup = <<"<","t","i","t","l","e",">","H","o","m","e","<","/","t","i","t","l","e",">","<","p",">","b","u","y"," ","t","h","i","s"," ","d","o","m","a","i","n"," ","f","r","o","m"," ","a"," ","d","o","m","a","i","n"," ","b","r","o","k","e","r"," ","a","t"," ","a"," ","d","o","m","a","i","n"," ","a","u","c","t","i","o","n","<","/","p",">">>]
\* two different parking keywords in the body, one of them "coming soon"
ComingSoonPage ==
    [PlainPage EXCEPT !.text = <<"H","o","m","e"," ","C","o","m","i","n","g"," ","s","o","o","n",":"," ","a"," ","w","h","o","i","s"," ","l","o","o","k","u","p">>,
                      !.markup = <<"<","t","i","t","l","e",">","H","o","m","e","<","/","t","i","t","l","e",">","<","p",">","C","o","m","i","n","g"," ","s","o","o","n",":"," ","a"," ","w","h","o","i","s"," ","l","o","o","k","u","p","<","/","p",">">>]
\* two different parking keywords in the body, neither listed twice
TwoKeywordsPage ==
    [PlainPage EXCEPT !.text = <<"H","o","m","e"," ","d","o","m","a","i","n"," ","a","u","c","t","i","o","n"," ","a","n","d"," ","w","h","o","i","s"," ","l","o","o","k","u","p">>,
                      !.markup = <<"<","t","i","t","l","e",">","H","o","m","e","<","/","t","i","t","l","e",">","<","p",">","d","o","m","a","i","n"," ","a","u","c","t","i","o","n"," ","a","n","d"," ","w","h","o","i","s"," ","l","o","o","k","u","p","<","/","p",">">>]
\* the registrar's "under construction" template
UnderConstructionPage ==
    [PlainPage EXCEPT !.has_title = FALSE, !.title = <<>>,
                      !.text = <<"T","h","i","s"," ","d","o","m","a","i","n"," ","i","s"," ","u","n","d","e","r"," ","c","o","n","s","t","r","u","c","t","i","o","n">>,
                      !.markup = <<"<","p",">","T","h","i","s"," ","d","o","m","a","i","n"," ","i","s"," ","u","n","d","e","r"," ","c","o","n","s","t","r","u","c","t","i","o","n","<","/","p",">">>]
\* a parking pattern: a Whois Lookup link on a short page
WhoisPage ==
    [PlainPage EXCEPT !.text = <<"H","o","m","e"," ","W","h","o","i","s"," "," ","L","o","o","k","u","p">>,
                      !.markup = <<"<","t","i","t","l","e",">","H","o","m","e","<","/","t","i","t","l","e",">","<","a"," ","h","r","e","f","=","\"","/","w","\"",">","W","h","o","i","s"," "," ","L","o","o","k","u","p","<","/","a",">">>,
                      !.anchors = 1, !.a_whois = TRUE]
\* a body BeautifulSoup cannot parse
UnparsablePage ==
    [PlainPage EXCEPT !.parse_error = << <<"expected name token">> >>, !.has_title = FALSE,
                      !.title = <<>>, !.text = <<>>, !.markup = <<>>]
\* a body BeautifulSoup cannot parse, fetched from a parking service
UnparsableRedirectedPage == [UnparsablePage EXCEPT !.url = RedirectedPage.url]

\* a parking service that serves a page with a parking title and parking keywords
RedirectedTitlePage ==
    [PlainPage EXCEPT !.url = RedirectedPage.url, !.title = <<"D","o","m","a","i","n"," ","P","a","r","k","i","n","g">>,
                      !.text = <<"D","o","m","a","i","n"," ","P","a","r","k","i","n","g"," ","b","u","y"," ","t","h","i","s"," ","d","o","m","a","i","n"," ","f","r","o","m"," ","a"," ","d","o","m","a","i","n"," ","b","r","o","k","e","r"," ","a","t"," ","a"," ","d","o","m","a","i","n"," ","a","u","c","t","i","o","n">>,
                      !.markup = <<"<","t","i","t","l","e",">","D","o","m","a","i","n"," ","P","a","r","k","i","n","g","<","/","t","i","t","l","e",">","<","p",">","b","u","y"," ","t","h","i","s"," ","d","o","m","a","i","n"," ","f","r","o","m"," ","a"," ","d","o","m","a","i","n"," ","b","r","o","k","e","r"," ","a","t"," ","a"," ","d","o","m","a","i","n"," ","a","u","c","t","i","o","n","<","/","p",">">>]
\* a parking keyword in the title and three in the body
TitleKeywordsPage == [RedirectedTitlePage EXCEPT !.url = PlainPage.url]
\* three different parking keywords in the body of an "under construction" template
KeywordsConstructionPage ==
    [PlainPage EXCEPT !.text = <<"H","o","m","e"," ","T","h","i","s"," ","d","o","m","a","i","n"," ","i","s"," ","u","n","d","e","r"," ","c","o","n","s","t","r","u","c","t","i","o","n",","," ","b","u","y"," ","t","h","i","s"," ","d","o","m","a","i","n"," ","a","t"," ","a"," ","d","o","m","a","i","n"," ","a","u","c","t","i","o","n">>,
                      !.markup = <<"<","t","i","t","l","e",">","H","o","m","e","<","/","t","i","t","l","e",">","<","p",">","T","h","i","s"," ","d","o","m","a","i","n"," ","i","s"," ","u","n","d","e","r"," ","c","o","n","s","t","r","u","c","t","i","o","n",","," ","b","u","y"," ","t","h","i","s"," ","d","o","m","a","i","n"," ","a","t"," ","a"," ","d","o","m","a","i","n"," ","a","u","c","t","i","o","n","<","/","p",">">>]
\* an "under construction" template with a Whois Lookup link
ConstructionWhoisPage == [UnderConstructionPage EXCEPT !.anchors = 1, !.a_whois = TRUE]

Pages == { PlainPage, RedirectedPage, TitlePage, KeywordsPage, ComingSoonPage,
           TwoKeywordsPage, UnderConstructionPage, WhoisPage, UnparsablePage,
           UnparsableRedirectedPage, RedirectedTitlePage, TitleKeywordsPage,
           KeywordsConstructionPage, ConstructionWhoisPage }

\* response.status_code
StatusCodes == { 200, 399, 400 }

\* what requests.get does: a response, an SSLError, another RequestException, a fault
HttpOutcomes ==
    { [kind |-> k, status |-> 0, page |-> PlainPage, e |-> <<>>] : k \in {"ssl_error", "error"} }
    \cup { [kind |-> "fault", status |-> 0, page |-> PlainPage, e |-> m] : m \in FaultMsgs }
    \cup { [kind |-> "response", status |-> c, page |-> p, e |-> <<>>] :
               c \in StatusCodes, p \in Pages }

\* what socket.create_connection does: a socket, socket.timeout/socket.error, a fault
SocketOutcomes ==
    { [kind |-> k, e |-> <<>>] : k \in {"connected", "error"} }
    \cup { [kind |-> "fault", e |-> m] : m \in FaultMsgs }

(***************************************************************************)
(* check_domain_validity(domain), run step by step.  The steps are the     *)
(* places where the code waits for the network; what the code does         *)
(* between two of them belongs to the step that precedes it.               *)
(*                                                                         *)
(* A dict is a record of its values together with the set of the keys it   *)
(* holds; None, and the value of a key the dict does not hold, is <<>>.    *)
(*                                                                         *)
(* The state of one run:                                                   *)
(*   pc          where the run is: "format", "mx", "a", "txt", "dmarc",    *)
(*               "https", "http", "tcp80", "tcp443", "done"                *)
(*   input       the argument                                              *)
(*   domain      the local variable domain                                 *)
(*   results     the dict results                                          *)
(*   probe       "own" while _check_single_domain runs on the domain,      *)
(*               "root" while it runs on the root domain                   *)
(*   target      the argument of the running _check_single_domain          *)
(*   own_status  what _check_single_domain returned for the domain         *)
(*   ret         <<>>, or <<d>> once the run has returned the dict d       *)
(* and, kept for the record only (the code never reads them):              *)
(*   log         the network operations issued so far, in order            *)
(*   calls       the calls of _check_single_domain that have returned      *)
(*   mx_answer   <<>>, or <<hosts>> once the MX query has answered         *)
(*   liveness    <<>>, or <<r>> once check_domain_liveness has returned r  *)
(*   fault       <<>>, or <<e>> once the run has caught the fault e        *)
(***************************************************************************)
ResultKeys == {"domain", "mx_records", "a_records", "spf_record", "dmarc_record",
               "site_live", "parked_domain", "valid", "status", "reason"}
ShortKeys == {"domain", "valid", "mx_records", "a_records", "site_live",
              "parked_domain", "status", "reason"}

\* the dict of lines 48-59
new_results(domain) ==
    [keys |-> ResultKeys, domain |-> domain, mx_records |-> FALSE, a_records |-> FALSE,
     spf_record |-> <<>>, dmarc_record |-> <<>>, site_live |-> FALSE,
     parked_domain |-> FALSE, valid |-> FALSE, status |-> "Unknown", reason |-> <<>>,
     parking_mx |-> <<>>, domain_details |-> <<>>]

\* the dict of lines 35-44
format_error_result(domain) ==
    [new_results(domain) EXCEPT !.keys = ShortKeys, !.status = "Invalid",
                                !.reason = <<"Invalid domain format">>]

\* a variant of exception_result that drops the text of the exception
exception_result_without_message(domain, e) ==
    [new_results(domain) EXCEPT !.keys = ShortKeys, !.status = "Invalid",
                                !.reason = <<"Error checking records">>]

\* the dict of lines 163-172, e being str(e)
exception_result(domain, e) ==
    [new_results(domain) EXCEPT !.keys = ShortKeys, !.status = "Invalid",
                                !.reason = <<"Error checking records: ">> \o e]

new_run(input) ==
    [pc |-> "format", input |-> input, domain |-> input, results |-> new_results(<<>>),
     probe |-> "none", target |-> <<>>, own_status |-> [status |-> "none", details |-> <<>>],
     ret |-> <<>>, log |-> <<>>, calls |-> <<>>, mx_answer |-> <<>>, liveness |-> <<>>,
     fault |-> <<>>]

\* return d
return(s, d) == [s EXCEPT !.pc = "done", !.ret = <<d>>]

\* an exception that reaches `except Exception as e` (line 162)
raise(s, e) == [return(s, exception_result(s.domain, e)) EXCEPT !.fault = <<e>>]

\* the record of a DNS query or a socket connect
logged(s, op, name, out) ==
    [s EXCEPT !.log = Append(@, [op |-> op, target |-> name, kind |-> out.kind,
                                 status |-> 0, parking |-> <<>>, page |-> <<>>,
                                 finding |-> <<>>])]

\* lines 34-59: the format check, then strip().lower() and the fresh results
check_format(s) ==
    IF ~re_match_domain(s.input)
    THEN return(s, format_error_result(s.input))
    ELSE LET domain == lower(strip(s.input))
         IN  [s EXCEPT !.pc = "mx", !.domain = domain, !.results = new_results(domain)]

\* a variant of find_parking_mx whose loop does not stop at the first match, so that
\* the last matching host is the one kept
RECURSIVE find_parking_mx_last(_)
find_parking_mx_last(mx_records) ==
    IF mx_records = <<>> THEN <<>>
    ELSE LET mx_host == lower(Head(mx_records))
             later == find_parking_mx_last(Tail(mx_records))
         IN  IF later # <<>> THEN later
             ELSE IF \E i \in 1..Len(PARKING_MX_PATTERNS) :
                         contains(PARKING_MX_PATTERNS[i], mx_host)
             THEN <<mx_host>>
             ELSE <<>>

\* lines 78-86: the first MX host, lower-cased, that contains a parking pattern
RECURSIVE find_parking_mx(_)
find_parking_mx(mx_records) ==
    IF mx_records = <<>> THEN <<>>
    ELSE LET mx_host == lower(Head(mx_records))
         IN  IF \E i \in 1..Len(PARKING_MX_PATTERNS) : contains(PARKING_MX_PATTERNS[i], mx_host)
             THEN <<mx_host>>
             ELSE find_parking_mx(Tail(mx_records))

\* lines 71-88: the MX query
after_mx(s, out) ==
    LET t == logged(s, "MX", s.domain, out)
    IN  CASE out.kind = "fault" -> raise(t, out.e)
          [] out.kind = "absent" -> [t EXCEPT !.pc = "a"]
          [] out.kind = "answer" ->
               LET found == find_parking_mx(out.records)
               IN  [t EXCEPT !.pc = "a", !.mx_answer = <<out.records>>,
                             !.results.mx_records = TRUE,
                             !.results.parking_mx = IF found # <<>> THEN found[1] ELSE @,
                             !.results.keys = IF found # <<>> THEN @ \cup {"parking_mx"} ELSE @]

\* a variant of after_a that starts the liveness check as soon as an A record is
\* found, before the TXT and _dmarc queries
after_a_then_probes(s, out) ==
    LET t == logged(s, "A", s.domain, out)
    IN  CASE out.kind = "fault" -> raise(t, out.e)
          [] out.kind = "absent" -> [t EXCEPT !.pc = "txt"]
          [] out.kind = "answer" ->
               [t EXCEPT !.pc = "https", !.probe = "own", !.target = lower(strip(s.domain)),
                         !.results.a_records = TRUE]

\* lines 90-95: the A query
after_a(s, out) ==
    LET t == logged(s, "A", s.domain, out)
    IN  CASE out.kind = "fault" -> raise(t, out.e)
          [] out.kind = "absent" -> [t EXCEPT !.pc = "txt"]
          [] out.kind = "answer" -> [t EXCEPT !.pc = "txt", !.results.a_records = TRUE]

\* lines 100-103 and 110-113: the last record whose text contains the marker, else old
RECURSIVE last_with(_, _, _)
last_with(marker, records, old) ==
    IF records = <<>> THEN old
    ELSE last_with(marker, Tail(records),
                   IF contains(marker, Head(records)) THEN <<Head(records)>> ELSE old)

\* a variant of after_txt that lets the failure to resolve reach `except Exception`
after_txt_failure_raises(s, out) ==
    LET t == logged(s, "TXT", s.domain, out)
    IN  CASE out.kind = "fault" -> raise(t, out.e)
          [] out.kind = "absent" ->
               raise(t, <<"The DNS response does not contain an answer to the question">>)
          [] out.kind = "answer" ->
               [t EXCEPT !.pc = "dmarc",
                         !.results.spf_record = last_with(<<"v","=","s","p","f","1">>, out.records, @)]

\* lines 97-105: the TXT query
after_txt(s, out) ==
    LET t == logged(s, "TXT", s.domain, out)
    IN  CASE out.kind = "fault" -> raise(t, out.e)
          [] out.kind = "absent" -> [t EXCEPT !.pc = "dmarc"]
          [] out.kind = "answer" ->
               [t EXCEPT !.pc = "dmarc",
                         !.results.spf_record = last_with(<<"v","=","s","p","f","1">>, out.records, @)]

\* a variant of site_is_live that counts a live root domain as a live site
site_is_live_or_root(domain_status) ==
    domain_status.status \in {"live", "subdomain_dead"}

\* line 134
site_is_live(domain_status) == domain_status.status = "live"

\* a variant of parked_outcome that lets an MX record outweigh the parked page
parked_outcome_unless_mx(r, domain_status) ==
    IF r.mx_records
    THEN [r EXCEPT !.status = "Risky", !.reason = <<"Has MX records but site isn't live">>]
    ELSE [r EXCEPT !.parked_domain = TRUE, !.status = "Invalid",
                   !.reason = domain_status.details]

\* lines 139-141: the domain is parked
parked_outcome(r, domain_status) ==
    [r EXCEPT !.parked_domain = TRUE, !.status = "Invalid",
              !.reason = domain_status.details]

\* a variant of dead_outcome that does not look at the MX record
dead_outcome_always_risky(r, domain_status) ==
    [r EXCEPT !.status = "Risky", !.reason = <<"Has MX records but site isn't live">>]

\* lines 144-151: the site is not live
dead_outcome(r, domain_status) ==
    IF r.mx_records
    THEN [r EXCEPT !.status = "Risky", !.reason = <<"Has MX records but site isn't live">>]
    ELSE [r EXCEPT !.status = "Invalid", !.reason = domain_status.details]

\* a variant of live_outcome that reports the liveness detail as the reason
live_outcome_with_details(r, domain_status) ==
    [r EXCEPT !.status = "Valid", !.reason = domain_status.details]

\* lines 154-155: every other status
live_outcome(r, domain_status) ==
    [r EXCEPT !.status = "Valid", !.reason = <<"Domain passed all checks">>]

\* lines 134-160: the classification of what check_domain_liveness returned
classify(s, domain_status) ==
    LET r1 == [s.results EXCEPT !.site_live = site_is_live(domain_status),
                                !.domain_details = domain_status.details,
                                !.keys = @ \cup {"domain_details"}]
        r2 == IF domain_status.status = "parked" THEN parked_outcome(r1, domain_status)
              ELSE IF domain_status.status = "dead" THEN dead_outcome(r1, domain_status)
              ELSE live_outcome(r1, domain_status)
        r3 == [r2 EXCEPT !.valid = (r2.status = "Valid")]
    IN  return([s EXCEPT !.liveness = <<domain_status>>, !.probe = "none"], r3)

\* a variant of dns_gates without the return for a domain that has no DNS record
dns_gates_without_record_gate(s) ==
    IF "parking_mx" \in s.results.keys /\ s.results.parking_mx # <<>>
    THEN return(s, [s.results EXCEPT !.parked_domain = TRUE, !.status = "Invalid",
                                     !.reason = <<"Domain uses parking MX: ">>
                                                    \o s.results.parking_mx])
    ELSE [s EXCEPT !.pc = "https", !.probe = "own", !.target = lower(strip(s.domain))]

\* a variant of dns_gates whose early returns leave the status as it was
dns_gates_returns_unclassified(s) ==
    IF ~s.results.mx_records /\ ~s.results.a_records
    THEN return(s, [s.results EXCEPT !.reason = <<"No MX or A records found">>])
    ELSE IF "parking_mx" \in s.results.keys /\ s.results.parking_mx # <<>>
    THEN return(s, [s.results EXCEPT !.parked_domain = TRUE,
                                     !.reason = <<"Domain uses parking MX: ">>
                                                    \o s.results.parking_mx])
    ELSE [s EXCEPT !.pc = "https", !.probe = "own", !.target = lower(strip(s.domain))]

\* lines 117-131: the decision on the DNS records, then the call of
\* check_domain_liveness, which starts _check_single_domain on domain.strip().lower()
dns_gates(s) ==
    IF ~s.results.mx_records /\ ~s.results.a_records
    THEN return(s, [s.results EXCEPT !.status = "Invalid",
                                     !.reason = <<"No MX or A records found">>])
    ELSE IF "parking_mx" \in s.results.keys /\ s.results.parking_mx # <<>>
    THEN return(s, [s.results EXCEPT !.parked_domain = TRUE, !.status = "Invalid",
                                     !.reason = <<"Domain uses parking MX: ">>
                                                    \o s.results.parking_mx])
    ELSE [s EXCEPT !.pc = "https", !.probe = "own", !.target = lower(strip(s.domain))]

\* lines 107-115: the _dmarc TXT query, and what follows it up to the first request
after_dmarc(s, out) ==
    LET t == logged(s, "DMARC", <<"_","d","m","a","r","c",".">> \o s.domain, out)
    IN  CASE out.kind = "fault" -> raise(t, out.e)
          [] out.kind = "absent" -> dns_gates(t)
          [] out.kind = "answer" ->
               dns_gates([t EXCEPT !.results.dmarc_record =
                                       last_with(<<"v","=","D","M","A","R","C","1">>, out.records, @)])

\* a variant of single_domain_returns that keeps, between the calls, the fact that a
\* root domain has been probed, and probes no root domain in a later call
single_domain_returns_root_once(s, status) ==
    LET t == [s EXCEPT !.calls = Append(@, [target |-> s.target, status |-> status.status,
                                            details |-> status.details])]
    IN  IF s.probe = "own"
        THEN LET domain == lower(strip(s.domain))
                 parts == split(domain, ".")
                 root_domain == join(last_two(parts), ".")
             IN  IF status.status = "dead" /\ count(domain, ".") > 1 /\ Len(parts) > 2
                    /\ previous = <<>>
                 THEN [t EXCEPT !.pc = "https", !.probe = "root", !.target = root_domain,
                                !.own_status = status]
                 ELSE classify(t, status)
        ELSE IF status.status = "live"
             THEN classify(t, [status |-> "subdomain_dead",
                               details |-> <<"Subdomain is dead, but root domain ">>
                                             \o s.target \o <<" is live">>])
             ELSE classify(t, s.own_status)

\* a variant of single_domain_returns that probes the last two labels of every dead
\* domain, however many labels it has
single_domain_returns_any_labels(s, status) ==
    LET t == [s EXCEPT !.calls = Append(@, [target |-> s.target, status |-> status.status,
                                            details |-> status.details])]
    IN  IF s.probe = "own"
        THEN LET domain == lower(strip(s.domain))
                 parts == split(domain, ".")
                 root_domain == join(last_two(parts), ".")
             IN  IF status.status = "dead"
                 THEN [t EXCEPT !.pc = "https", !.probe = "root", !.target = root_domain,
                                !.own_status = status]
                 ELSE classify(t, status)
        ELSE IF status.status = "live"
             THEN classify(t, [status |-> "subdomain_dead",
                               details |-> <<"Subdomain is dead, but root domain ">>
                                             \o s.target \o <<" is live">>])
             ELSE classify(t, s.own_status)

\* lines 181-199: _check_single_domain has returned status; check_domain_liveness
\* either probes the root domain or returns
single_domain_returns(s, status) ==
    LET t == [s EXCEPT !.calls = Append(@, [target |-> s.target, status |-> status.status,
                                            details |-> status.details])]
    IN  IF s.probe = "own"
        THEN LET domain == lower(strip(s.domain))
                 parts == split(domain, ".")
                 root_domain == join(last_two(parts), ".")
             IN  IF status.status = "dead" /\ count(domain, ".") > 1 /\ Len(parts) > 2
                 THEN [t EXCEPT !.pc = "https", !.probe = "root", !.target = root_domain,
                                !.own_status = status]
                 ELSE classify(t, status)
        ELSE IF status.status = "live"
             THEN classify(t, [status |-> "subdomain_dead",
                               details |-> <<"Subdomain is dead, but root domain ">>
                                             \o s.target \o <<" is live">>])
             ELSE classify(t, s.own_status)

\* check_if_parked(domain, response) of every page; the finding depends on neither
\* the domain nor the status code
parking_finding ==
    [page \in Pages |-> check_if_parked(<<>>, [status |-> 200, page |-> page])]

\* the record of an HTTP or HTTPS request: what came back and, when the status is no
\* error status, the page handed to check_if_parked, what check_if_parked returned
\* and, if the page is a parked one, the reason
logged_request(s, op, out) ==
    LET finding == parking_finding[out.page]
        usable == out.kind = "response" /\ out.status < HTTP_ERROR
    IN  [s EXCEPT !.log = Append(@, [op |-> op, target |-> s.target, kind |-> out.kind,
                                     status |-> out.status,
                                     parking |-> IF usable /\ finding[1]
                                                 THEN <<finding[2]>> ELSE <<>>,
                                     page |-> IF usable THEN <<out.page>> ELSE <<>>,
                                     finding |-> IF usable THEN <<finding>> ELSE <<>>])]

\* lines 209-213 and 226-230: a response, from the scheme named; the finding is
\* check_if_parked(domain, response), read from the table
usable_response(s, scheme, out) ==
    LET finding == parking_finding[out.page]
    IN  IF finding[1]
        THEN single_domain_returns(s, [status |-> "parked", details |-> finding[2]])
        ELSE single_domain_returns(s, [status |-> "live",
                                       details |-> <<scheme, ": ">> \o str(out.status)])

\* a variant of after_https that takes a TLS error for a dead site
after_https_ssl_is_dead(s, out) ==
    LET t == logged_request(s, "HTTPS", out)
    IN  CASE out.kind = "fault" -> raise(t, out.e)
          [] out.kind = "ssl_error" ->
               single_domain_returns(t, [status |-> "dead",
                                         details |-> <<"Failed all connection attempts">>])
          [] out.kind = "error" -> [t EXCEPT !.pc = "http"]
          [] out.kind = "response" ->
               IF out.status < HTTP_ERROR THEN usable_response(t, "HTTPS", out)
               ELSE [t EXCEPT !.pc = "http"]

\* lines 204-219: the HTTPS request
after_https(s, out) ==
    LET t == logged_request(s, "HTTPS", out)
    IN  CASE out.kind = "fault" -> raise(t, out.e)
          [] out.kind \in {"ssl_error", "error"} -> [t EXCEPT !.pc = "http"]
          [] out.kind = "response" ->
               IF out.status < HTTP_ERROR THEN usable_response(t, "HTTPS", out)
               ELSE [t EXCEPT !.pc = "http"]

\* a variant of after_http that goes on to the socket connects whatever the request
\* gave
after_http_then_connects(s, out) ==
    LET t == logged_request(s, "HTTP", out)
    IN  CASE out.kind = "fault" -> raise(t, out.e)
          [] out.kind \in {"ssl_error", "error", "response"} -> [t EXCEPT !.pc = "tcp80"]

\* lines 221-232: the HTTP request
after_http(s, out) ==
    LET t == logged_request(s, "HTTP", out)
    IN  CASE out.kind = "fault" -> raise(t, out.e)
          [] out.kind \in {"ssl_error", "error"} -> [t EXCEPT !.pc = "tcp80"]
          [] out.kind = "response" ->
               IF out.status < HTTP_ERROR THEN usable_response(t, "HTTP", out)
               ELSE [t EXCEPT !.pc = "tcp80"]

SocketLive ==
    [status |-> "live", details |-> <<"Socket connection successful, but HTTP failed">>]

\* lines 234-238: the connect to port 80
after_tcp80(s, out) ==
    LET t == logged(s, "TCP80", s.target, out)
    IN  CASE out.kind = "fault" -> raise(t, out.e)
          [] out.kind = "connected" -> single_domain_returns(t, SocketLive)
          [] out.kind = "error" -> [t EXCEPT !.pc = "tcp443"]

\* a variant of after_tcp443 that takes the site for dead whatever port 443 does
after_tcp443_is_dead(s, out) ==
    LET t == logged(s, "TCP443", s.target, out)
    IN  CASE out.kind = "fault" -> raise(t, out.e)
          [] out.kind \in {"connected", "error"} ->
               single_domain_returns(t, [status |-> "dead",
                                         details |-> <<"Failed all connection attempts">>])

\* lines 239-243: the connect to port 443
after_tcp443(s, out) ==
    LET t == logged(s, "TCP443", s.target, out)
    IN  CASE out.kind = "fault" -> raise(t, out.e)
          [] out.kind = "connected" -> single_domain_returns(t, SocketLive)
          [] out.kind = "error" ->
               single_domain_returns(t, [status |-> "dead",
                                         details |-> <<"Failed all connection attempts">>])

\* the states that one step of the run s can lead to, in a network that offers the
\* outcomes net
steps(s, net) ==
    CASE s.pc = "format" -> { check_format(s) }
      [] s.pc = "mx"     -> { after_mx(s, out) : out \in net.mx }
      [] s.pc = "a"      -> { after_a(s, out) : out \in net.a }
      [] s.pc = "txt"    -> { after_txt(s, out) : out \in net.txt }
      [] s.pc = "dmarc"  -> { after_dmarc(s, out) : out \in net.dmarc }
      [] s.pc = "https"  -> { after_https(s, out) : out \in net.https }
      [] s.pc = "http"   -> { after_http(s, out) : out \in net.http }
      [] s.pc = "tcp80"  -> { after_tcp80(s, out) : out \in net.tcp80 }
      [] s.pc = "tcp443" -> { after_tcp443(s, out) : out \in net.tcp443 }
      [] OTHER           -> {}

\* every outcome of every operation
Network ==
    [mx |-> DnsOutcomes(MxAnswers), a |-> DnsOutcomes(AAnswers),
     txt |-> DnsOutcomes(TxtAnswers), dmarc |-> DnsOutcomes(DmarcAnswers),
     https |-> HttpOutcomes, http |-> HttpOutcomes,
     tcp80 |-> SocketOutcomes, tcp443 |-> SocketOutcomes]

(***************************************************************************)
(* The strings check_domain_validity is called with.                       *)
(***************************************************************************)
Alphabet == { "A", "-", ".", "\n" }
Strings == UNION { [1..n -> Alphabet] : n \in 0..MaxLen }

(***************************************************************************)
(* process_domain_list(filename, max_workers).                             *)
(*                                                                         *)
(*   file              <<>> when the file does not exist, else <<lines>>   *)
(*   max_workers       the size of the worker pool                         *)
(*   bpc               "load", "submit", "collect", "report", "done",      *)
(*                     "exit1"                                             *)
(*   domains           the list domains                                    *)
(*   futures           the futures, in submission order; a future is       *)
(*                     "pending", "running" or "finished" and, finished,   *)
(*                     holds what the task returned or raised; run is the  *)
(*                     call of check_domain_validity that the task makes   *)
(*   results           the dict of the three lists of (domain, reason)     *)
(*   detailed_results  the list detailed_results                           *)
(*   collected         the futures the loop has handled, in the order of   *)
(*                     as_completed (detailed_results[k] stems from        *)
(*                     futures[collected[k]])                              *)
(*   summary           <<>>, or <<the counts printed>>                     *)
(*   report            <<>>, or <<the rows written to the CSV file>>       *)
(*                                                                         *)
(* A worker runs check_domain_validity from its call to its return in one  *)
(* step: the run shares nothing with the other runs (it reads              *)
(* self.PARKING_KEYWORDS only), so what it returns is a result of the      *)
(* step-by-step run above, whatever the other workers do meanwhile.        *)
(***************************************************************************)
\* the final states of the runs from s
RECURSIVE finals(_, _)
finals(s, net) ==
    IF s.pc = "done" THEN {s} ELSE UNION { finals(t, net) : t \in steps(s, net) }

\* the network of the batch runs: of every operation, the outcomes that lead to
\* different kinds of result
OneFault == CHOOSE m \in FaultMsgs : TRUE
BatchNetwork ==
    [mx |-> { out \in Network.mx :
                  \/ out.kind = "absent"
                  \/ out.kind = "fault" /\ out.e = OneFault
                  \/ out.kind = "answer" /\ Len(out.records) = 1 },
     a |-> { out \in Network.a : out.kind = "fault" => out.e = OneFault },
     txt |-> { out \in Network.txt : out.kind = "absent" },
     dmarc |-> { out \in Network.dmarc :
                     \/ out.kind = "absent"
                     \/ out.kind = "fault" /\ out.e = OneFault },
     https |-> { out \in Network.https :
                     \/ out.kind = "error"
                     \/ out.kind = "fault" /\ out.e = OneFault
                     \/ out.kind = "response" /\ out.status = 200
                            /\ out.page \in {PlainPage, TitlePage} },
     http |-> { out \in Network.http : out.kind = "error" },
     tcp80 |-> { out \in Network.tcp80 : out.kind = "error" },
     tcp443 |-> { out \in Network.tcp443 :
                      \/ out.kind = "error"
                      \/ out.kind = "fault" /\ out.e = OneFault }]

\* what future.result() gives for check_domain_validity(domain): the dict returned
\* (and, for the record, the fault the run caught); the function catches every
\* Exception, so the future never holds one
task_outcomes(domain) ==
    { [result |-> s.ret[1], fault |-> s.fault, raised |-> <<>>] :
          s \in finals(new_run(domain), BatchNetwork) }

NoOutcome == [result |-> new_results(<<>>), fault |-> <<>>, raised |-> <<>>]

\* the lines of an input file
Lines == { <<"\n">>, <<"A","A","\n">>, <<"-",".","A","\n">>, <<" ","A",".","a","\n">> }
Files == UNION { [1..n -> Lines] : n \in 0..MaxLines }

\* line 338
RECURSIVE read_domains(_)
read_domains(lines) ==
    IF lines = <<>> THEN <<>>
    ELSE LET line == Head(lines)
         IN  (IF strip(line) # <<>> /\ contains(<<".">>, strip(line))
              THEN <<strip(line)>> ELSE <<>>) \o read_domains(Tail(lines))

\* lines 379-387, e being str(e)
task_error_result(domain, e) ==
    [new_results(domain) EXCEPT
        !.keys = {"domain", "mx_records", "a_records", "site_live", "parked_domain",
                  "status", "reason"},
        !.status = "Invalid", !.reason = e]

\* result.get(key, False), rendered "True" or "False"
csv_bool(result, key, value) == IF key \in result.keys /\ value THEN "True" ELSE "False"

\* lines 409-417
csv_row(result) ==
    << result.domain,
       csv_bool(result, "mx_records", result.mx_records),
       csv_bool(result, "a_records", result.a_records),
       csv_bool(result, "site_live", result.site_live),
       csv_bool(result, "parked_domain", result.parked_domain),
       result.status, result.reason >>

batch_vars == <<file, max_workers, bpc, domains, futures, results, detailed_results,
                collected, summary, report>>
twice_vars == <<network, previous>>
vars == <<run, batch_vars, twice_vars>>

NoBatch ==
    /\ file = <<>> /\ max_workers = 1 /\ bpc = "idle" /\ domains = <<>>
    /\ futures = <<>> /\ results = [Valid |-> <<>>, Invalid |-> <<>>, Risky |-> <<>>]
    /\ detailed_results = <<>> /\ collected = <<>> /\ summary = <<>> /\ report = <<>>

NoTwice == network = {} /\ previous = <<>>

(***************************************************************************)
(* Spec: one call of check_domain_validity, on any string, in any network. *)
(***************************************************************************)
Init == run \in { new_run(d) : d \in Strings } /\ NoBatch /\ NoTwice

\* lines 30-59: the call, up to the first DNS query
Begin ==
    run.pc = "format" /\ run' \in steps(run, Network) /\ UNCHANGED <<batch_vars, twice_vars>>

\* line 74
QueryMX ==
    run.pc = "mx" /\ run' \in steps(run, Network) /\ UNCHANGED <<batch_vars, twice_vars>>

\* line 92
QueryA ==
    run.pc = "a" /\ run' \in steps(run, Network) /\ UNCHANGED <<batch_vars, twice_vars>>

\* line 99
QueryTXT ==
    run.pc = "txt" /\ run' \in steps(run, Network) /\ UNCHANGED <<batch_vars, twice_vars>>

\* line 109, and the decision on the DNS records
QueryDMARC ==
    run.pc = "dmarc" /\ run' \in steps(run, Network) /\ UNCHANGED <<batch_vars, twice_vars>>

\* line 206
GetHTTPS ==
    run.pc = "https" /\ run' \in steps(run, Network) /\ UNCHANGED <<batch_vars, twice_vars>>

\* line 223
GetHTTP ==
    run.pc = "http" /\ run' \in steps(run, Network) /\ UNCHANGED <<batch_vars, twice_vars>>

\* line 236
Connect80 ==
    run.pc = "tcp80" /\ run' \in steps(run, Network) /\ UNCHANGED <<batch_vars, twice_vars>>

\* line 240
Connect443 ==
    run.pc = "tcp443" /\ run' \in steps(run, Network) /\ UNCHANGED <<batch_vars, twice_vars>>

Next == Begin \/ QueryMX \/ QueryA \/ QueryTXT \/ QueryDMARC
        \/ GetHTTPS \/ GetHTTP \/ Connect80 \/ Connect443

Spec == Init /\ [][Next]_vars

(***************************************************************************)
(* SpecBatch: one call of process_domain_list.                             *)
(***************************************************************************)
InitBatch ==
    /\ run = new_run(<<>>)
    /\ file \in { <<>> } \cup { <<f>> : f \in Files }
    /\ max_workers \in 1..MaxWorkers
    /\ bpc = "load" /\ domains = <<>> /\ futures = <<>>
    /\ results = [Valid |-> <<>>, Invalid |-> <<>>, Risky |-> <<>>]
    /\ detailed_results = <<>> /\ collected = <<>> /\ summary = <<>> /\ report = <<>>
    /\ NoTwice

\* lines 336-349 and 421-423
Load ==
    /\ bpc = "load"
    /\ IF file = <<>>
       THEN bpc' = "exit1" /\ UNCHANGED domains
       ELSE /\ domains' = read_domains(file[1])
            /\ bpc' = IF domains' = <<>> THEN "collect" ELSE "submit"
    /\ UNCHANGED <<twice_vars, run, file, max_workers, futures, results,
                   detailed_results, collected, summary, report>>

\* line 353: executor.submit of the next domain
Submit ==
    /\ bpc = "submit"
    /\ futures' = Append(futures, [state |-> "pending", domain |-> domains[Len(futures) + 1],
                                   out |-> NoOutcome,
                                   run |-> new_run(domains[Len(futures) + 1])])
    /\ bpc' = IF Len(futures') = Len(domains) THEN "collect" ELSE "submit"
    /\ UNCHANGED <<twice_vars, run, file, max_workers, domains, results,
                   detailed_results, collected, summary, report>>

running == { k \in 1..Len(futures) : futures[k].state = "running" }
pending == { k \in 1..Len(futures) : futures[k].state = "pending" }

\* a worker of the pool takes the oldest pending task
StartTask ==
    /\ pending # {}
    /\ Cardinality(running) < max_workers
    /\ LET k == CHOOSE k \in pending : \A j \in pending : k <= j
       IN  futures' = [futures EXCEPT ![k].state = "running"]
    /\ UNCHANGED <<twice_vars, run, file, max_workers, bpc, domains, results,
                   detailed_results, collected, summary, report>>

\* a worker ends its task
FinishTask ==
    \E k \in running :
        /\ \E out \in task_outcomes(futures[k].domain) :
               futures' = [futures EXCEPT ![k].state = "finished", ![k].out = out]
        /\ UNCHANGED <<twice_vars, run, file, max_workers, bpc, domains, results,
                       detailed_results, collected, summary, report>>

\* a variant of categorize that knows the lists Valid and Invalid only
categorize_two_tiers(lists, result) ==
    IF result.status \in {"Valid", "Invalid"}
    THEN [lists EXCEPT ![result.status] = Append(@, <<result.domain, result.reason>>)]
    ELSE lists

\* lines 362-364: the result goes to the list of its status, if there is one
categorize(lists, result) ==
    IF result.status \in DOMAIN lists
    THEN [lists EXCEPT ![result.status] = Append(@, <<result.domain, result.reason>>)]
    ELSE lists

\* lines 356-387: one turn of the loop over as_completed, which yields a finished future
\* that it has not yielded yet
Collect ==
    /\ bpc = "collect"
    /\ \E k \in 1..Len(futures) :
        /\ futures[k].state = "finished"
        /\ \A j \in 1..Len(collected) : collected[j] # k
        /\ LET domain == futures[k].domain
               out == futures[k].out
           IN  IF out.raised = <<>>
               THEN /\ results' = categorize(results, out.result)
                    /\ detailed_results' = Append(detailed_results, out.result)
               ELSE LET e == out.raised[1]
                    IN  /\ results' = [results EXCEPT !.Invalid = Append(@, <<domain, e>>)]
                        /\ detailed_results' =
                               Append(detailed_results, task_error_result(domain, e))
        /\ collected' = Append(collected, k)
    /\ UNCHANGED <<twice_vars, run, file, max_workers, bpc, domains, futures, summary,
                   report>>

\* a variant of Summarize that does not wait for the loop to handle every future
Summarize_without_waiting ==
    /\ bpc = "collect"
    /\ summary' = << [total |-> Len(domains), valid |-> Len(results.Valid),
                      risky |-> Len(results.Risky), invalid |-> Len(results.Invalid)] >>
    /\ bpc' = "report"
    /\ UNCHANGED <<twice_vars, run, file, max_workers, domains, futures, results,
                   detailed_results, collected, report>>

\* lines 389-396: the loop has handled every future; the summary
Summarize ==
    /\ bpc = "collect"
    /\ Len(collected) = Len(futures)
    /\ summary' = << [total |-> Len(domains), valid |-> Len(results.Valid),
                      risky |-> Len(results.Risky), invalid |-> Len(results.Invalid)] >>
    /\ bpc' = "report"
    /\ UNCHANGED <<twice_vars, run, file, max_workers, domains, futures, results,
                   detailed_results, collected, report>>

\* lines 398-419: the CSV file
Report ==
    /\ bpc = "report"
    /\ report' = << [k \in 1..Len(detailed_results) |-> csv_row(detailed_results[k])] >>
    /\ bpc' = "done"
    /\ UNCHANGED <<twice_vars, run, file, max_workers, domains, futures, results,
                   detailed_results, collected, summary>>

NextBatch == Load \/ Submit \/ StartTask \/ FinishTask \/ Collect \/ Summarize \/ Report

SpecBatch == InitBatch /\ [][NextBatch]_vars

(***************************************************************************)
(* SpecTwice: check_domain_validity called twice with the same string, in  *)
(* a network whose state does not change.                                  *)
(*                                                                         *)
(*   network   what the network has been asked and has answered: the same  *)
(*             question gets the same answer again                         *)
(*   previous  the calls that have returned, as they ended                 *)
(*                                                                         *)
(* A call binds the parameter and nothing else: the locals of the earlier  *)
(* call are gone, and self holds PARKING_KEYWORDS only, which no method    *)
(* assigns.                                                                *)
(***************************************************************************)
\* the operation the run is about to make and the name it passes
question(s) ==
    [op |-> s.pc,
     name |-> IF s.pc \in {"mx", "a", "txt"} THEN s.domain
              ELSE IF s.pc = "dmarc" THEN <<"_","d","m","a","r","c",".">> \o s.domain
              ELSE s.target]

\* the outcomes a network in the state asked can give the run s, net being what a
\* network may answer at all
answers(net, asked, s) ==
    IF \E m \in asked : m.question = question(s)
    THEN { m.out : m \in { n \in asked : n.question = question(s) } }
    ELSE net[s.pc]

\* the networks of the two calls
TwiceNetwork ==
    [mx |-> { out \in Network.mx :
                  \/ out.kind = "absent"
                  \/ out.kind = "fault" /\ out.e = OneFault
                  \/ out.kind = "answer" /\ Len(out.records) = 1 },
     a |-> { out \in Network.a : out.kind = "fault" => out.e = OneFault },
     txt |-> { out \in Network.txt : out.kind = "answer" => out.records = <<SpfTxt>> },
     dmarc |-> { out \in Network.dmarc : out.kind # "fault" },
     https |-> { out \in Network.https :
                     \/ out.kind \in {"error", "ssl_error"}
                     \/ out.kind = "fault" /\ out.e = OneFault
                     \/ out.kind = "response" /\ out.status = 200
                            /\ out.page \in {PlainPage, ComingSoonPage, UnparsablePage}
                     \/ out.kind = "response" /\ out.status = 400 /\ out.page = PlainPage },
     http |-> { out \in Network.http :
                    \/ out.kind = "error"
                    \/ out.kind = "response" /\ out.status \in {399, 400}
                           /\ out.page = PlainPage },
     tcp80 |-> { out \in Network.tcp80 : out.kind # "fault" },
     tcp443 |-> { out \in Network.tcp443 : out.kind = "fault" => out.e = OneFault }]

\* a domain, a subdomain, a string that is no domain
TwiceInputs == { <<"A",".","A">>, <<"A",".","A",".","A">>, <<"-",".","A">> }

InitTwice == run \in { new_run(d) : d \in TwiceInputs } /\ NoBatch /\ NoTwice

\* a DNS query, an HTTP request or a socket connect of the call under way
Ask ==
    /\ run.pc \notin {"format", "done"}
    /\ \E out \in answers(TwiceNetwork, network, run) :
           /\ run' \in steps(run, [TwiceNetwork EXCEPT ![run.pc] = {out}])
           /\ network' = network \cup { [question |-> question(run), out |-> out] }
    /\ UNCHANGED <<batch_vars, previous>>

\* the call has returned; the same string is passed again
Again ==
    /\ run.pc = "done" /\ previous = <<>>
    /\ previous' = <<run>>
    /\ run' = new_run(run.input)
    /\ UNCHANGED <<batch_vars, network>>

NextTwice == Begin \/ Ask \/ Again

SpecTwice == InitTwice /\ [][NextTwice]_vars

(***************************************************************************)
(* SpecWorkers: one call of process_domain_list, the workers of the pool   *)
(* running their calls of check_domain_validity step by step, interleaved  *)
(* with one another and with the loop that collects the results.           *)
(* FairWorkers adds that the threads keep running: every DNS query, HTTP   *)
(* request and socket connect returns or times out (the resolver's         *)
(* lifetime, timeout=10, timeout=5), so a step that can be taken is taken. *)
(***************************************************************************)
\* the network of the workers' calls: of every operation, outcomes that lead to
\* different kinds of result (Valid, Risky, the Invalid of a fault)
WorkerNetwork ==
    [mx |-> { out \in Network.mx : out.kind = "answer" /\ Len(out.records) = 1
                                     /\ find_parking_mx(out.records) = <<>> },
     a |-> { out \in Network.a :
                 out.kind = "absent" \/ (out.kind = "fault" /\ out.e = OneFault) },
     txt |-> { out \in Network.txt : out.kind = "absent" },
     dmarc |-> { out \in Network.dmarc : out.kind = "absent" },
     https |-> { out \in Network.https :
                     \/ out.kind = "error"
                     \/ out.kind = "response" /\ out.status = 200 /\ out.page = PlainPage },
     http |-> { out \in Network.http : out.kind = "error" },
     tcp80 |-> { out \in Network.tcp80 : out.kind = "error" },
     tcp443 |-> { out \in Network.tcp443 : out.kind = "error" }]

\* a variant of WorkerStep in which the calls under way write to one results dict,
\* shared by the workers
WorkerStep_shared_results ==
    \E k \in running :
        /\ \E t \in steps(futures[k].run, WorkerNetwork) :
               futures' = [j \in 1..Len(futures) |->
                              IF j = k
                              THEN [futures[k] EXCEPT
                                       !.run = t,
                                       !.state = IF t.pc = "done" THEN "finished" ELSE @,
                                       !.out = IF t.pc = "done"
                                               THEN [result |-> t.ret[1], fault |-> t.fault,
                                                     raised |-> <<>>]
                                               ELSE @]
                              ELSE IF futures[j].state = "running"
                              THEN [futures[j] EXCEPT !.run.results = t.results]
                              ELSE futures[j]]
        /\ UNCHANGED <<twice_vars, run, file, max_workers, bpc, domains, results,
                       detailed_results, collected, summary, report>>

\* a step of the call that a worker is running; the call that returns ends the task
WorkerStep ==
    \E k \in running :
        /\ \E t \in steps(futures[k].run, WorkerNetwork) :
               futures' = [futures EXCEPT
                              ![k].run = t,
                              ![k].state = IF t.pc = "done" THEN "finished" ELSE @,
                              ![k].out = IF t.pc = "done"
                                         THEN [result |-> t.ret[1], fault |-> t.fault,
                                               raised |-> <<>>]
                                         ELSE @]
        /\ UNCHANGED <<twice_vars, run, file, max_workers, bpc, domains, results,
                       detailed_results, collected, summary, report>>

NextWorkers == Load \/ Submit \/ StartTask \/ WorkerStep \/ Collect \/ Summarize \/ Report

SpecWorkers == InitBatch /\ [][NextWorkers]_vars

FairWorkers == SpecWorkers /\ WF_vars(NextWorkers)

(***************************************************************************)
(* Properties.                                                             *)
(***************************************************************************)
Done == run.pc = "done"
Returned == run.ret[1]
NoFault == run.fault = <<>>
ProbeOps == {"HTTPS", "HTTP", "TCP80", "TCP443"}
\* the requests and connects issued so far
Probes == SelectSeq(run.log, LAMBDA e : e.op \in ProbeOps)
\* the requests and connects issued so far to one host
attempts(target) == SelectSeq(run.log, LAMBDA e : e.op \in ProbeOps /\ e.target = target)
\* the query op has been made and found no record
absent(op) == \E i \in 1..Len(run.log) : run.log[i].op = op /\ run.log[i].kind = "absent"
\* an attempt that gave no response with a status below 400, or no connection
failed(e) ==
    IF e.op \in {"HTTPS", "HTTP"}
    THEN e.kind \in {"ssl_error", "error"} \/ (e.kind = "response" /\ e.status >= 400)
    ELSE e.kind = "error"
BatchOver == bpc \in {"report", "done"}

\* C1: for N input domains (the lines that are not blank and hold a "."), the batch
\* collects exactly N detailed results, one per dispatched domain (each future is
\* handled exactly once and its own result is the one stored), and the counts of the
\* summary add up to N, for every pool size and every order of completion.
C1_LinesKept ==
    { i \in 1..Len(file[1]) :
          /\ \E j \in 1..Len(file[1][i]) : file[1][i][j] \notin Whitespace
          /\ \E j \in 1..Len(file[1][i]) : file[1][i][j] = "." }
C1_OneResultPerDomain ==
    /\ Len(detailed_results) = Len(collected)
    /\ \A j \in 1..Len(collected) :
           /\ detailed_results[j] = futures[collected[j]].out.result
           /\ \A i \in 1..Len(collected) : collected[i] = collected[j] => i = j
    /\ BatchOver =>
           LET N == Cardinality(C1_LinesKept)
           IN  /\ Len(domains) = N /\ Len(futures) = N /\ Len(detailed_results) = N
               /\ \A k \in 1..N : \E j \in 1..N : collected[j] = k
               /\ summary[1].total = N
               /\ summary[1].valid + summary[1].risky + summary[1].invalid = N
C1_Witness ==
    /\ bpc = "done" /\ max_workers = 2 /\ Len(file[1]) = 2
    /\ collected = <<2, 1>>
    /\ domains[1] = domains[2]
    /\ summary[1].risky = 1 /\ summary[1].valid = 1

\* C2 (as the claim states it): a task that caught an exception returns a result
\* with status Invalid whose reason is the exception's message.
C2_ReasonIsTheMessage ==
    \A k \in 1..Len(futures) :
        (futures[k].state = "finished" /\ futures[k].out.fault # <<>>) =>
            /\ futures[k].out.result.status = "Invalid"
            /\ futures[k].out.result.reason = futures[k].out.fault[1]

\* C2 (amended): a task that caught an exception returns (it does not raise) a result
\* for its domain with status Invalid whose reason is "Error checking records: "
\* followed by the exception's message; the batch stores exactly that one result for
\* the task, the other tasks are handled all the same, and the batch never stops
\* before its report is written.
C2_FaultYieldsOneInvalidResult ==
    /\ \A k \in 1..Len(futures) :
           (futures[k].state = "finished" /\ futures[k].out.fault # <<>>) =>
               LET out == futures[k].out
                   mine == { j \in 1..Len(collected) : collected[j] = k }
               IN  /\ out.raised = <<>>
                   /\ out.result.status = "Invalid"
                   /\ out.result.reason = <<"Error checking records: ">> \o out.fault[1]
                   /\ out.result.domain = lower(futures[k].domain)
                   /\ ~out.result.site_live /\ ~out.result.parked_domain
                   /\ Cardinality(mine) <= 1
                   /\ \A j \in mine : detailed_results[j] = out.result
                   /\ BatchOver => Cardinality(mine) = 1
    /\ BatchOver => Len(detailed_results) = Len(domains)
    /\ bpc \notin {"done", "exit1"} => ENABLED NextBatch
C2_Witness ==
    /\ bpc = "done" /\ Len(futures) = 2
    /\ futures[1].out.fault # <<>>
    /\ collected = <<1, 2>>
    /\ detailed_results[1].reason = <<"Error checking records: ">> \o futures[1].out.fault[1]
    /\ detailed_results[2].status = "Valid"

\* C3: a string that does not match the grammar label(.label)+ (a label starts with
\* a letter or digit and holds letters, digits and hyphens only) is answered Invalid,
\* "Invalid domain format", site_live and parked_domain false, and no DNS query,
\* request or connect is issued for it.
C3_is_label(label) ==
    /\ label # <<>>
    /\ label[1] \in Alnum
    /\ \A i \in 1..Len(label) : label[i] \in AlnumHyphen
C3_matches_grammar(s) ==
    LET labels == split(s, ".")
    IN  Len(labels) >= 2 /\ \A i \in 1..Len(labels) : C3_is_label(labels[i])
C3_BadFormatNeverReachesNetwork ==
    (run.pc # "format" /\ ~C3_matches_grammar(run.input)) =>
        /\ Done
        /\ run.log = <<>>
        /\ Returned.status = "Invalid"
        /\ Returned.reason = <<"Invalid domain format">>
        /\ ~Returned.site_live /\ ~Returned.parked_domain

\* C4: a run on a format-valid domain whose MX query and A query both found no record
\* (and that caught no fault) returns Invalid, "No MX or A records found", site_live
\* and parked_domain false, and has issued no request and no connect.
C4_NoRecordsIsInvalid ==
    (Done /\ NoFault /\ absent("MX") /\ absent("A")) =>
        /\ Returned.status = "Invalid"
        /\ Returned.reason = <<"No MX or A records found">>
        /\ ~Returned.site_live /\ ~Returned.parked_domain /\ ~Returned.valid
        /\ Probes = <<>>
C4_Witness ==
    /\ Done /\ NoFault /\ absent("MX") /\ absent("A")
    /\ Returned.reason = <<"No MX or A records found">>
    /\ Len(run.log) = 4

\* C5: a run (that caught no fault) whose MX answer holds a host containing a parking
\* pattern returns Invalid with parked_domain true and site_live false; the parking
\* host reported, in parking_mx and in the reason, is the first such host of the
\* answer, lower-cased; no request and no connect has been issued.
C5_is_parking_host(host) ==
    \E i \in 1..Len(PARKING_MX_PATTERNS) : contains(PARKING_MX_PATTERNS[i], lower(host))
C5_ParkingMxIsInvalid ==
    (Done /\ NoFault /\ run.mx_answer # <<>>
          /\ \E i \in 1..Len(run.mx_answer[1]) : C5_is_parking_host(run.mx_answer[1][i])) =>
        LET hosts == run.mx_answer[1]
            first == CHOOSE i \in 1..Len(hosts) :
                         /\ C5_is_parking_host(hosts[i])
                         /\ \A j \in 1..(i - 1) : ~C5_is_parking_host(hosts[j])
        IN  /\ Returned.status = "Invalid"
            /\ Returned.parked_domain /\ ~Returned.site_live /\ ~Returned.valid
            /\ Returned.parking_mx = lower(hosts[first])
            /\ Returned.reason = <<"Domain uses parking MX: ">> \o lower(hosts[first])
            /\ Probes = <<>>
C5_Witness ==
    /\ Done /\ NoFault /\ run.mx_answer # <<>>
    /\ Len(run.mx_answer[1]) = 2
    /\ C5_is_parking_host(run.mx_answer[1][1])
    /\ C5_is_parking_host(run.mx_answer[1][2])
    /\ lower(run.mx_answer[1][1]) # lower(run.mx_answer[1][2])
    /\ Returned.parking_mx = lower(run.mx_answer[1][1])
    /\ Returned.a_records

\* C6: a call of _check_single_domain returns Dead only after exactly the four
\* attempts HTTPS, HTTP, port 80, port 443, in this order, and all four have failed.
C6_DeadOnlyAfterFourFailures ==
    \A k \in 1..Len(run.calls) :
        run.calls[k].status = "dead" =>
            LET a == attempts(run.calls[k].target)
            IN  /\ Len(a) = 4
                /\ <<a[1].op, a[2].op, a[3].op, a[4].op>> = <<"HTTPS", "HTTP", "TCP80", "TCP443">>
                /\ \A i \in 1..4 : failed(a[i])
C6_Witness ==
    /\ Len(run.calls) = 1 /\ run.calls[1].status = "dead"
    /\ Len(Probes) = 4
    /\ Probes[1].kind = "ssl_error"
    /\ Probes[2].kind = "response"

\* C7: for a domain of at least 3 labels that passes the DNS gates and whose own probe
\* is Dead, the root domain (the last two labels) is probed, and when that probe is
\* Live the result (of a run that caught no fault) is Valid with site_live false and
\* parked_domain false, with or without an MX record.
C7_labels == split(run.domain, ".")
C7_RootEscalationIsValid ==
    (Done /\ NoFault /\ Len(run.calls) >= 1 /\ run.calls[1].status = "dead"
          /\ Len(C7_labels) >= 3) =>
        /\ Len(run.calls) = 2
        /\ run.calls[2].target = join(last_two(C7_labels), ".")
        /\ run.calls[2].status = "live" =>
               /\ Returned.status = "Valid" /\ Returned.valid
               /\ ~Returned.site_live /\ ~Returned.parked_domain
C7_Witness ==
    /\ Done /\ NoFault /\ Len(run.calls) = 2
    /\ run.calls[1].status = "dead" /\ run.calls[2].status = "live"
    /\ run.mx_answer = <<>>
    /\ Returned.status = "Valid" /\ ~Returned.site_live

\* C8 (as the claim states it): the reason of a Valid result is the liveness detail
\* (for a subdomain made Valid through its root, the escalation detail).
C8_ValidReasonIsTheDetail ==
    (Done /\ Returned.status = "Valid") => Returned.reason = run.liveness[1].details

\* C8 (amended): the reason of a Valid result is "Domain passed all checks"; the
\* liveness detail of the successful probe or, for a subdomain made Valid through its
\* root, the escalation detail that names the live root domain, is what the result
\* holds as domain_details.
C8_ValidReasonIsFixed ==
    (Done /\ Returned.status = "Valid") =>
        /\ Returned.reason = <<"Domain passed all checks">>
        /\ "domain_details" \in Returned.keys
        /\ Returned.domain_details = run.liveness[1].details
        /\ IF Len(run.calls) = 2
           THEN /\ run.calls[2].status = "live"
                /\ Returned.domain_details =
                       <<"Subdomain is dead, but root domain ">>
                           \o join(last_two(split(Returned.domain, ".")), ".")
                           \o <<" is live">>
           ELSE /\ run.calls[1].status = "live"
                /\ Returned.domain_details = run.calls[1].details
C8_Witness ==
    /\ Done /\ Returned.status = "Valid" /\ Len(run.calls) = 2
    /\ Returned.reason = <<"Domain passed all checks">>
    /\ Returned.domain_details # run.calls[2].details

\* C9: a run (that caught no fault) whose liveness outcome is Dead returns Risky,
\* "Has MX records but site isn't live", if the MX query answered, and Invalid with
\* the liveness detail as reason if it did not; site_live and parked_domain are false.
C9_DeadIsRiskyOrInvalid ==
    (Done /\ NoFault /\ run.liveness # <<>> /\ run.liveness[1].status = "dead") =>
        /\ ~Returned.site_live /\ ~Returned.parked_domain /\ ~Returned.valid
        /\ IF run.mx_answer # <<>>
           THEN /\ Returned.status = "Risky"
                /\ Returned.reason = <<"Has MX records but site isn't live">>
           ELSE /\ Returned.status = "Invalid"
                /\ Returned.reason = run.liveness[1].details
                /\ Returned.reason = <<"Failed all connection attempts">>
C9_Witness ==
    /\ Done /\ NoFault /\ run.liveness # <<>> /\ run.liveness[1].status = "dead"
    /\ run.mx_answer = <<>>
    /\ Returned.status = "Invalid"
    /\ Len(run.calls) = 2 /\ run.calls[2].status = "parked"

\* C10: a response with a status below 400 whose page gets a positive parking finding
\* ends the probe at once with the outcome Parked and the parking reason: nothing is
\* requested or connected after it, neither a fallback step nor a probe of the root.
\* When the response is the domain's own, the result is Invalid with parked_domain
\* true, site_live false and the parking reason as reason, with or without an MX
\* record; when it is the root domain's, the domain keeps its Dead outcome.
C10_ParkedEndsTheProbe ==
    \A i \in 1..Len(run.log) :
        run.log[i].parking # <<>> =>
            /\ i = Len(run.log)
            /\ Done /\ NoFault
            /\ run.calls[Len(run.calls)] =
                   [target |-> run.log[i].target, status |-> "parked",
                    details |-> run.log[i].parking[1]]
            /\ Len(run.calls) = 1 =>
                   /\ run.liveness[1].status = "parked"
                   /\ Returned.status = "Invalid" /\ ~Returned.valid
                   /\ Returned.parked_domain /\ ~Returned.site_live
                   /\ Returned.reason = run.log[i].parking[1]
            /\ Len(run.calls) = 2 => run.liveness[1].status = "dead"
C10_Witness ==
    /\ Done /\ Len(run.calls) = 1 /\ run.calls[1].status = "parked"
    /\ run.mx_answer # <<>>
    /\ Len(Probes) = 2 /\ Probes[2].op = "HTTP" /\ Probes[2].parking # <<>>
    /\ Returned.status = "Invalid" /\ Returned.parked_domain

\* the parking keywords, lower-cased, that occur in the body text of a page
C11_distinct_keywords ==
    [page \in Pages |->
        { lower(PARKING_KEYWORDS[i]) : i \in { j \in 1..Len(PARKING_KEYWORDS) :
              contains(lower(PARKING_KEYWORDS[j]), lower(page.text)) } }]
\* the detector declared the page of the request e parked by its body-keyword rule
C11_parked_by_body_rule(e) ==
    /\ e.finding # <<>> /\ e.finding[1][1]
    /\ e.finding[1][2][1] = "Contains multiple parking keywords ("

\* C11: a page is declared parked by the body-keyword rule only when at least 3
\* distinct parking keywords occur in its body text.
C11_BodyRuleCountsDistinctKeywords ==
    \A i \in 1..Len(run.log) :
        C11_parked_by_body_rule(run.log[i]) =>
            Cardinality(C11_distinct_keywords[run.log[i].page[1]]) >= MIN_PARKING_PHRASES

\* the call k of _check_single_domain ended with a socket connect that succeeded,
\* after an HTTPS and an HTTP request that both failed
C12_socket_connected(k) ==
    LET a == attempts(run.calls[k].target)
    IN  /\ Len(a) \in {3, 4}
        /\ failed(a[1]) /\ failed(a[2])
        /\ a[Len(a)].kind = "connected"
        /\ Len(a) = 4 => a[3].kind = "error"

\* C12: when neither HTTPS nor HTTP yields a response with a status below 400 and the
\* connect to port 80 or, failing that, to port 443 succeeds, _check_single_domain
\* returns live with the detail "Socket connection successful, but HTTP failed"
\* without a call of the parking detector, and a domain whose own probe ends so is
\* Valid with site_live true.
C12_SocketConnectIsLive ==
    \A k \in 1..Len(run.calls) :
        C12_socket_connected(k) =>
            LET a == attempts(run.calls[k].target)
            IN  /\ run.calls[k].status = "live"
                /\ run.calls[k].details = <<"Socket connection successful, but HTTP failed">>
                /\ \A i \in 1..Len(a) : a[i].finding = <<>> /\ a[i].page = <<>>
                /\ a[1].op = "HTTPS" /\ a[2].op = "HTTP" /\ a[3].op = "TCP80"
                /\ Len(a) = 4 => a[4].op = "TCP443"
                /\ k = 1 => /\ Done /\ NoFault
                            /\ Returned.status = "Valid" /\ Returned.valid
                            /\ Returned.site_live /\ ~Returned.parked_domain
                            /\ Returned.domain_details = run.calls[1].details
C12_Witness ==
    /\ Done /\ Len(run.calls) = 1 /\ C12_socket_connected(1)
    /\ Len(Probes) = 4
    /\ Probes[1].kind = "response" /\ Probes[1].status >= HTTP_ERROR
    /\ Probes[2].kind = "error"
    /\ Probes[4].op = "TCP443" /\ Probes[4].kind = "connected"
    /\ Returned.status = "Valid" /\ Returned.site_live

C14_at_parking_service ==
    { page \in Pages :
        \E i \in 1..Len(parking_services) : contains(parking_services[i], lower(page.url)) }
\* the requests whose page the detector was given and could not parse
C14_unparsable == { i \in 1..Len(run.log) :
                      run.log[i].page # <<>> /\ run.log[i].page[1].parse_error # <<>> }

\* C14 (as the claim states it): for a page whose body cannot be parsed the detector
\* returns not parked, with a reason that records the parse failure.
C14_UnparsableIsNotParked ==
    \A i \in C14_unparsable :
        LET e == run.log[i]
        IN  e.finding[1] = <<FALSE, <<"Could not parse HTML content: ">>
                                       \o e.page[1].parse_error[1]>>

\* C14 (amended): for a page whose body cannot be parsed and whose final URL matches
\* no parking service the detector returns not parked, with the reason "Could not
\* parse HTML content: " followed by the parser's message, and the request counts as
\* live; a page whose final URL matches a parking service is parked for its URL
\* before its body is parsed.
C14_UnparsableIsNotParkedUnlessRedirected ==
    \A i \in C14_unparsable :
        LET e == run.log[i]
        IN  IF e.page[1] \in C14_at_parking_service
            THEN e.finding[1] = <<TRUE, <<"Redirects to parking service">> >>
            ELSE /\ e.finding[1] = <<FALSE, <<"Could not parse HTML content: ">>
                                               \o e.page[1].parse_error[1]>>
                 /\ e.parking = <<>>
                 /\ \E k \in 1..Len(run.calls) :
                        /\ run.calls[k].target = e.target
                        /\ run.calls[k].status = "live"
                        /\ run.calls[k].details = <<e.op, ": ">> \o str(e.status)
C14_Witness ==
    /\ Done /\ Len(Probes) = 2 /\ C14_unparsable = {6}
    /\ Probes[2].op = "HTTP" /\ Probes[2].page[1] = UnparsablePage
    /\ Probes[2].finding[1][1] = FALSE
    /\ Returned.status = "Valid" /\ Returned.site_live

\* the order of the liveness chain
C15_chain == <<"HTTPS", "HTTP", "TCP80", "TCP443">>
\* the hosts probed so far
C15_targets == { run.log[i].target : i \in { j \in 1..Len(run.log) : run.log[j].op \in ProbeOps } }

\* C15: the attempts made on a host are HTTPS, HTTP, port 80, port 443, in this order,
\* and each is made only if every attempt before it failed: nothing follows a response
\* with a status below 400 or a connect that succeeded.
C15_NextStepOnlyAfterFailure ==
    \A target \in C15_targets :
        LET a == attempts(target)
        IN  /\ Len(a) <= Len(C15_chain)
            /\ \A i \in 1..Len(a) :
                   /\ a[i].op = C15_chain[i]
                   /\ i < Len(a) => failed(a[i])
C15_Witness ==
    /\ Done /\ NoFault /\ Len(Probes) = 2
    /\ Probes[1].op = "HTTPS" /\ Probes[1].kind = "ssl_error"
    /\ Probes[2].op = "HTTP" /\ Probes[2].kind = "response" /\ Probes[2].status = 399
    /\ Probes[2].parking = <<>>
    /\ Returned.domain_details = <<"HTTP", ": ", "399">>

\* the labels of the domain and the root domain they give
C16_labels == split(run.domain, ".")
C16_root_domain == join(last_two(C16_labels), ".")
\* check_domain_liveness has gone on to a second call of _check_single_domain
C16_escalated == run.probe = "root" \/ Len(run.calls) = 2

\* C16: a host other than the domain is probed only after the domain's own probe has
\* returned dead, only if the domain has at least 3 labels, and it is the root domain;
\* _check_single_domain is called at most twice, so the root domain is probed at most
\* once and never escalated; and when the root domain is not live (dead or parked),
\* check_domain_liveness returns what the domain's own probe returned, dead.
C16_RootProbedOnceAfterDead ==
    /\ Len(run.calls) <= 2
    /\ ~C16_escalated =>
           /\ Len(Probes) <= 4
           /\ \A i \in 1..Len(Probes) : Probes[i].target = run.domain
    /\ C16_escalated =>
           /\ run.calls[1].target = run.domain /\ run.calls[1].status = "dead"
           /\ Len(C16_labels) >= 3 /\ C16_root_domain # run.domain
           /\ Len(attempts(run.domain)) = 4 /\ Len(attempts(C16_root_domain)) <= 4
           /\ \A i \in 1..Len(Probes) :
                  Probes[i].target = IF i <= 4 THEN run.domain ELSE C16_root_domain
    /\ Len(run.calls) = 2 =>
           /\ run.calls[2].target = C16_root_domain
           /\ Done /\ NoFault /\ run.liveness # <<>>
           /\ run.calls[2].status # "live" =>
                  run.liveness[1] = [status |-> "dead", details |-> run.calls[1].details]
           /\ run.calls[2].status = "live" => run.liveness[1].status = "subdomain_dead"
C16_Witness ==
    /\ Done /\ NoFault /\ Len(run.calls) = 2
    /\ run.calls[2].status = "parked"
    /\ run.liveness[1] = [status |-> "dead", details |-> <<"Failed all connection attempts">>]
    /\ Len(attempts(run.domain)) = 4 /\ Len(attempts(C16_root_domain)) = 1
    /\ Returned.status = "Risky" /\ ~Returned.parked_domain

\* the rules of the detector, each taken alone, and of every page the first that holds
C17_url_rule(page) ==
    \E i \in 1..Len(parking_services) : contains(parking_services[i], lower(page.url))
C17_title_rule(page) ==
    /\ page.parse_error = <<>> /\ page.has_title
    /\ \E i \in 1..Len(PARKING_KEYWORDS) :
           contains(lower(PARKING_KEYWORDS[i]), lower(page.title))
C17_body_rule(page) ==
    /\ page.parse_error = <<>>
    /\ Len(keywords_in(lower(page.text))) >= MIN_PARKING_PHRASES
C17_structure_rule(page) ==
    /\ page.parse_error = <<>>
    /\ \/ any(network_solutions_indicators(page, lower(page.text)))
       \/ any(parking_indicators(page, IF page.has_title THEN lower(page.title) ELSE <<>>,
                                 lower(page.text)))
C17_first_rule ==
    [page \in Pages |->
        IF C17_url_rule(page) THEN "url"
        ELSE IF C17_title_rule(page) THEN "title"
        ELSE IF C17_body_rule(page) THEN "body"
        ELSE IF C17_structure_rule(page) THEN "structure"
        ELSE "none"]
C17_rules_that_hold ==
    [page \in Pages |->
        Cardinality({ r \in {"url", "title", "body", "structure"} :
            \/ r = "url" /\ C17_url_rule(page)
            \/ r = "title" /\ C17_title_rule(page)
            \/ r = "body" /\ C17_body_rule(page)
            \/ r = "structure" /\ C17_structure_rule(page) })]

\* C17: the detector decides by the first rule that holds, in the order URL match,
\* title keyword, body keyword count >= 3, structural heuristics, and reports the
\* reason of that rule; when no rule holds the finding is not parked.  A response whose
\* final URL matches a parking service is parked with the reason "Redirects to parking
\* service" whatever its title and body are.
C17_FirstRuleDecides ==
    \A i \in 1..Len(run.log) :
        run.log[i].finding # <<>> =>
            LET rule == C17_first_rule[run.log[i].page[1]]
                is_parked == run.log[i].finding[1][1]
                reason == run.log[i].finding[1][2]
            IN  /\ rule = "url" => is_parked /\ reason = <<"Redirects to parking service">>
                /\ rule = "title" =>
                       is_parked /\ reason[1] = "Contains parking keyword in title: '"
                /\ rule = "body" =>
                       is_parked /\ reason[1] = "Contains multiple parking keywords ("
                /\ rule = "structure" =>
                       /\ is_parked
                       /\ reason \in { <<"Detected Network Solutions 'Under Construction' page">>,
                                       <<"Detected parking page pattern">> }
                /\ rule = "none" => ~is_parked
C17_Witness ==
    /\ Done /\ Len(Probes) = 1
    /\ C17_rules_that_hold[Probes[1].page[1]] = 3
    /\ Probes[1].finding[1] = <<TRUE, <<"Redirects to parking service">> >>
    /\ Returned.parked_domain /\ Returned.reason = <<"Redirects to parking service">>

\* the k-th task has been dispatched; it has completed
C18_dispatched(k) == Len(futures) >= k
C18_completed(k) == Len(futures) >= k /\ futures[k].state = "finished"
\* the summary or the report has been produced
C18_summed_up == summary # <<>> \/ report # <<>>

\* C18: when the threads keep running and every network operation returns or times
\* out, every dispatched task eventually completes and the batch eventually finishes
\* (or exits because the file is missing); the summary and the report are produced
\* only after every domain has been dispatched and every dispatched task has completed
\* and been collected, and no task is dropped.
C18_BatchFinishes ==
    /\ [](C18_summed_up =>
             /\ Len(futures) = Len(domains)
             /\ \A k \in 1..Len(futures) :
                    /\ futures[k].state = "finished"
                    /\ \E j \in 1..Len(collected) : collected[j] = k)
    /\ [](report # <<>> => summary # <<>> /\ Len(report[1]) = Len(domains))
    /\ \A k \in 1..MaxLines : C18_dispatched(k) ~> C18_completed(k)
    /\ <>(bpc \in {"done", "exit1"})
    /\ [](bpc = "done" => report # <<>>)
C18_Witness ==
    /\ bpc = "done" /\ max_workers = 1 /\ Len(futures) = 2
    /\ C18_completed(1) /\ C18_completed(2)
    /\ futures[2].out.fault # <<>>
    /\ collected = <<1, 2>> /\ Len(report[1]) = 2

\* the domains a file can hold and, of each, the results that a call of
\* check_domain_validity running alone can return
C19_domains == { read_domains(<<line>>)[1] :
                     line \in { l \in Lines : read_domains(<<l>>) # <<>> } }
C19_alone ==
    [d \in C19_domains |-> { s.ret[1] : s \in finals(new_run(d), WorkerNetwork) }]
\* the number of (domain, reason) pairs in the three lists
C19_listed(lists) == Len(lists.Valid) + Len(lists.Risky) + Len(lists.Invalid)
\* the state of the tasks and of the collection is consistent
C19_consistent ==
    /\ \A k \in 1..Len(futures) :
           futures[k].state = "finished" =>
               /\ futures[k].run.pc = "done"
               /\ futures[k].out.raised = <<>>
               /\ futures[k].out.result = futures[k].run.ret[1]
               /\ futures[k].out.result \in C19_alone[futures[k].domain]
               /\ futures[k].run.input = futures[k].domain
    /\ Len(detailed_results) = Len(collected)
    /\ C19_listed(results) = Len(collected)
    /\ \A j \in 1..Len(collected) :
           /\ futures[collected[j]].state = "finished"
           /\ detailed_results[j] = futures[collected[j]].out.result
           /\ \A i \in 1..Len(collected) : collected[i] = collected[j] => i = j
\* what one step may do to the tasks and to the collection
C19_step ==
    /\ \A k \in 1..Len(futures) : futures[k].state = "finished" => futures'[k] = futures[k]
    /\ Cardinality({ k \in 1..Len(futures) : futures'[k] # futures[k] }) <= 1
    /\ (results' # results \/ detailed_results' # detailed_results
            \/ collected' # collected) =>
           /\ futures' = futures
           /\ \E k \in 1..Len(futures) :
                  /\ futures[k].state = "finished"
                  /\ \A j \in 1..Len(collected) : collected[j] # k
                  /\ collected' = Append(collected, k)
                  /\ detailed_results' = Append(detailed_results, futures[k].out.result)
                  /\ results' = [results EXCEPT ![futures[k].out.result.status] =
                                    Append(@, <<futures[k].out.result.domain,
                                                futures[k].out.result.reason>>)]

\* C19: a task hands over its outcome once, when its call returns, and the outcome is
\* one that the call running alone could return; a step of one task changes nothing of
\* another task; the lists of results are written by the collecting loop alone, one
\* insertion per completed task, of that task's own result, so that no interleaving of
\* the workers loses, duplicates or corrupts a result.
C19_EachTaskReportsOnce == [](C19_consistent) /\ [][C19_step]_vars
C19_Witness ==
    /\ bpc = "collect" /\ max_workers = 2 /\ Len(futures) = 2
    /\ futures[1].state = "running" /\ futures[1].run.pc = "tcp443"
    /\ futures[2].state = "finished" /\ futures[2].run.pc = "done"
    /\ futures[2].out.result.status = "Valid"
    /\ collected = <<2>> /\ detailed_results = <<futures[2].out.result>>
    /\ futures[1].domain = futures[2].domain

\* the DNS queries made so far, and the queries of a call in their order
C20_queries == SelectSeq(run.log, LAMBDA e : e.op \in {"MX", "A", "TXT", "DMARC"})
C20_order == <<"MX", "A", "TXT", "DMARC">>
C20_after == <<"a", "txt", "dmarc">>

\* C20: a query that fails to resolve counts as a record that is absent and raises
\* nothing: the call goes on to the next record type, every record type is queried
\* once, in the order MX, A, TXT, _dmarc TXT, and the result is no error result but one
\* in which that record is absent.
C20_ResolutionFailureIsAbsence ==
    /\ Len(C20_queries) <= 4
    /\ \A i \in 1..Len(C20_queries) :
           /\ C20_queries[i] = run.log[i]
           /\ C20_queries[i].op = C20_order[i]
           /\ C20_queries[i].target =
                  (IF i = 4 THEN <<"_","d","m","a","r","c",".">> ELSE <<>>) \o run.domain
    /\ run.fault # <<>> => run.log[Len(run.log)].kind = "fault"
    /\ \A i \in 1..Len(C20_queries) :
           C20_queries[i].kind = "absent" =>
               /\ i = Len(run.log) /\ i < 4 => run.pc = C20_after[i]
               /\ (Done /\ NoFault) =>
                      /\ Len(C20_queries) = 4
                      /\ Returned.status \in {"Valid", "Risky", "Invalid"}
                      /\ Returned.reason[1] # "Error checking records: "
                      /\ i = 1 => ~Returned.mx_records /\ "parking_mx" \notin Returned.keys
                      /\ i = 2 => ~Returned.a_records
                      /\ i = 3 => Returned.spf_record = <<>>
                      /\ i = 4 => Returned.dmarc_record = <<>>
C20_Witness ==
    /\ Done /\ NoFault /\ Len(C20_queries) = 4
    /\ C20_queries[1].kind = "absent" /\ C20_queries[2].kind = "answer"
    /\ C20_queries[3].kind = "absent" /\ C20_queries[4].kind = "absent"
    /\ Len(Probes) = 1 /\ Returned.status = "Valid"
    /\ ~Returned.mx_records /\ Returned.a_records


(***************************************************************************)
(* The result as a whole, and the order of the network operations.         *)
(***************************************************************************)
C21_statuses == {"Valid", "Risky", "Invalid"}
\* the four facts that hold together in one result dict d
C21_consistent(d) ==
    /\ d.status \in C21_statuses
    /\ d.parked_domain => (d.status = "Invalid" /\ ~d.site_live)
    /\ d.site_live => d.status = "Valid"
    /\ d.status = "Risky" => d.mx_records

\* C21: every result a validation returns, whichever return it leaves by (the format
\* check, the two DNS gates, the classification, the except clause), and every
\* result the batch stores, has a status among Valid, Risky and Invalid, never the
\* initial "Unknown"; if parked_domain is set the status is Invalid and site_live is
\* not set; if site_live is set the status is Valid; if the status is Risky
\* mx_records is set.  A validation that has ended has returned a result.
C21_ResultIsConsistent ==
    /\ Done <=> run.ret # <<>>
    /\ Done => C21_consistent(Returned)
    /\ \A j \in 1..Len(detailed_results) : C21_consistent(detailed_results[j])
C21_Witness ==
    /\ Done /\ NoFault
    /\ Returned.parked_domain /\ Returned.mx_records /\ Returned.a_records
    /\ Returned.status = "Invalid" /\ ~Returned.site_live
    /\ Len(Probes) = 2

\* the four DNS queries of a validation, in the order of the code
C22_dns_ops == <<"MX", "A", "TXT", "DMARC">>
\* the first four operations are the four DNS queries and each has come back, with
\* records or without
C22_dns_completed ==
    /\ Len(run.log) >= 4
    /\ \A i \in 1..4 : run.log[i].op = C22_dns_ops[i]
                       /\ run.log[i].kind \in {"answer", "absent"}
\* the MX answer holds a host that contains a parking pattern
C22_parking_mx ==
    /\ run.mx_answer # <<>>
    /\ \E i \in 1..Len(run.mx_answer[1]) : \E j \in 1..Len(PARKING_MX_PATTERNS) :
           contains(PARKING_MX_PATTERNS[j], lower(run.mx_answer[1][i]))
\* neither the MX query nor the A query found a record
C22_no_record == absent("MX") /\ absent("A")

\* C22: within one validation a request or a connect is issued only after the MX, A,
\* TXT and _dmarc TXT queries have all come back, in that order, and every later
\* operation is a request or a connect; none is issued when the domain has neither an
\* MX nor an A record, or when an MX host is a parking host; and there are at most 8
\* of them, at most 4 to the domain and then at most 4 to one other host.
C22_ProbesFollowDns ==
    /\ \A i \in 1..Len(run.log) : run.log[i].op \in ProbeOps <=> i > 4
    /\ Probes # <<>> => C22_dns_completed
    /\ (C22_no_record \/ C22_parking_mx) => Probes = <<>>
    /\ Len(Probes) <= 8
    /\ Len(attempts(run.domain)) <= 4
    /\ \A i \in 1..Len(Probes) :
           /\ i <= 4 => Probes[i].target = run.domain
           /\ i > 4 => Probes[i].target = Probes[5].target /\ Probes[i].target # run.domain
C22_Witness ==
    /\ Done /\ NoFault /\ Len(run.log) = 12 /\ Len(Probes) = 8
    /\ C22_dns_completed
    /\ run.log[1].kind = "answer" /\ run.log[2].kind = "absent"
    /\ run.log[3].kind = "absent" /\ run.log[4].kind = "answer"
    /\ Returned.status = "Risky"
====
